---- MODULE Spec2Model ----
(***************************************************************************)
(* A model of corm (src/src/corm.c), the backend-abstracted ORM engine:    *)
(* the model registry, the persistence operations save / find / find_all / *)
(* where_raw / delete, the relationship loader and the allocation-tracking *)
(* result container, on top of a relational store that behaves as the      *)
(* built-in SQLite backend does (foreign keys enforced, AUTOINCREMENT      *)
(* rowids, NOT NULL and PRIMARY KEY constraints).                          *)
(*                                                                         *)
(* Values.  An int / int64 / bool field is an integer.  A char* field is   *)
(* NULL (the empty tuple) or a one-element tuple holding the text, so the  *)
(* null pointer and the empty string "" are different values.  A pointer   *)
(* to a heap block is the block's positive id, 0 is the null pointer.      *)
(***************************************************************************)
EXTENDS Integers, Sequences, FiniteSets, TLC

VARIABLES
    models,     \* db->models[0 .. model_count-1], as table names
    pkf,        \* meta->primary_key_field of every descriptor (0 = NULL)
    related,    \* field->related_model of every relationship field
    tables,     \* the rows stored by the backend, per table, in rowid order
    autoseq,    \* the backend's AUTOINCREMENT high-water mark per table
    lastid,     \* the connection's last insert rowid
    heap,       \* the allocator: live blocks and counters
    result,     \* the corm_result_t the caller holds (blk = 0: none)
    session,    \* history of the held result: the blocks live before it
                \* was made, the load_relation calls made on it
    schema,     \* the tables that exist in the backend
    arena,      \* db->internal_arena->used
    handle,     \* the blocks of the handle and db->allocator
    last        \* the last public call: its arguments, return value, trace

vars ==
    <<models, pkf, related, tables, autoseq, lastid, heap, result, session,
      schema, arena, handle, last>>

(***************************************************************************)
(* Bounds of the model.                                                    *)
(***************************************************************************)
\* The registry capacity the handle is built with (CORM_MAX_MODELS is a
\* compile-time setting, 128 by default).
MaxModels == 3
\* The largest rowid the backend hands out before inserts are refused.
MaxId == 2
\* The initial allocation_capacity of a result (16 in corm_result_create,
\* scaled down so that the tracking list grows within the model).
InitialCapacity == 2
\* The number of corm_load_relation calls made on one result.
MaxLoads == 2
\* The size of the internal arena (CORM_MIB(1) in corm_init, scaled down;
\* the unit is one clause of a CREATE TABLE statement).
ArenaSize == 12
\* The longest WHERE fragment, in terms, and the longest field list.
MaxTerms == 3

MaxFields == 3
\* The longest field list a CREATE TABLE statement is generated for.
MaxColumns == 2
\* The most blocks a container tracks before the call under test.
MaxTracked == 4
\* The most rows a query of the statement protocol selects.
MaxRows == 2

(***************************************************************************)
(* Flags, types and the C string values.                                   *)
(***************************************************************************)
PRIMARY_KEY == "PRIMARY_KEY"
NOT_NULL == "NOT_NULL"
UNIQUE == "UNIQUE"
AUTO_INC == "AUTO_INC"

FIELD_TYPE_INT == "INT"
FIELD_TYPE_INT64 == "INT64"
FIELD_TYPE_STRING == "STRING"
FIELD_TYPE_BOOL == "BOOL"
FIELD_TYPE_BELONGS_TO == "BELONGS_TO"
FIELD_TYPE_HAS_MANY == "HAS_MANY"

NULL == <<>>
Str(s) == <<s>>

IsRelation(f) == f.type \in {FIELD_TYPE_BELONGS_TO, FIELD_TYPE_HAS_MANY}

(***************************************************************************)
(* The model descriptors the callers declare (DEFINE_MODEL).  User, Post   *)
(* and Tag follow the test suite's models; NoPk and TwoPk are the          *)
(* declarations registration has to reject.  AUTO_INC is only declared on  *)
(* a primary key, the only place the backend accepts it.                   *)
(***************************************************************************)
Field(n, t, fl, v) ==
    [name |-> n, type |-> t, flags |-> fl, validator |-> v,
     target_model_name |-> "NULL", fk_column_name |-> "NULL",
     count_field |-> "NULL"]

\* count_field names the struct member at count_offset (has-many only).
RelField(n, t, target, fk, cnt) ==
    [name |-> n, type |-> t, flags |-> {}, validator |-> "NULL",
     target_model_name |-> target, fk_column_name |-> fk,
     count_field |-> cnt]

ModelNames == {"User", "Post", "Tag", "NoPk", "TwoPk"}

FieldTable ==
    [m \in ModelNames |->
    CASE m = "User" ->
           << Field("id", FIELD_TYPE_INT, {PRIMARY_KEY, AUTO_INC}, "NULL"),
              Field("name", FIELD_TYPE_STRING, {NOT_NULL}, "validate_name"),
              Field("age", FIELD_TYPE_INT, {}, "validate_age"),
              RelField("posts", FIELD_TYPE_HAS_MANY, "Post", "user_id",
                       "posts_count") >>
      [] m = "Post" ->
           << Field("id", FIELD_TYPE_INT64, {PRIMARY_KEY, AUTO_INC}, "NULL"),
              Field("user_id", FIELD_TYPE_INT, {NOT_NULL}, "NULL"),
              Field("tag", FIELD_TYPE_STRING, {}, "NULL"),
              RelField("user", FIELD_TYPE_BELONGS_TO, "User", "user_id", "NULL"),
              RelField("label", FIELD_TYPE_BELONGS_TO, "Tag", "tag", "NULL") >>
      [] m = "Tag" ->
           << Field("id", FIELD_TYPE_STRING, {PRIMARY_KEY}, "NULL") >>
      [] m = "NoPk" ->
           << Field("x", FIELD_TYPE_INT, {}, "NULL") >>
      [] m = "TwoPk" ->
           << Field("a", FIELD_TYPE_INT, {PRIMARY_KEY}, "NULL"),
              Field("b", FIELD_TYPE_INT, {PRIMARY_KEY, NOT_NULL}, "NULL") >>]

Fields(m) == FieldTable[m]

field_count(m) == Len(Fields(m))

RelKeys ==
    UNION { { <<m, i>> : i \in { j \in 1..field_count(m) :
                                   IsRelation(Fields(m)[j]) } } :
            m \in ModelNames }

(***************************************************************************)
(* The record of the last public call.                                     *)
(***************************************************************************)
NoInst == [none |-> TRUE]

NoCall ==
    [op |-> "init", model |-> "NULL", ret |-> FALSE, arg |-> NoInst,
     inst |-> NoInst, calls |-> <<>>, vlog |-> <<>>, existed |-> FALSE]

(***************************************************************************)
(* The scoped arena the SQL text is built in.  Only its used offset is     *)
(* modelled: an allocation moves it up, a temporary scope remembers it at  *)
(* entry and puts it back at exit.                                         *)
(***************************************************************************)
corm_arena_alloc(used, size) == used + size

corm_arena_start_temp(used) == [checkpoint |-> used]

corm_arena_end_temp(temp) == temp.checkpoint

(***************************************************************************)
(* corm_register_model                                                     *)
(***************************************************************************)
\* The fields carrying PRIMARY_KEY, in declaration order (the loop of
\* corm_register_model visits them in this order).
PkIndexes(m) ==
    { i \in 1..field_count(m) : PRIMARY_KEY \in Fields(m)[i].flags }

PkCountTable == [m \in ModelNames |-> Cardinality(PkIndexes(m))]

pk_count(m) == PkCountTable[m]

\* pk_field after the loop: the last flagged field, NULL (0) when none.
PkFieldTable ==
    [m \in ModelNames |->
        IF PkIndexes(m) = {} THEN 0
        ELSE CHOOSE i \in PkIndexes(m) : \A j \in PkIndexes(m) : j <= i]

pk_field(m) == PkFieldTable[m]

RegisterAcceptsMut(m) == pk_count(m) >= 1

\* The two early returns of corm_register_model on the primary-key count.
RegisterAccepts(m) == ~(pk_count(m) = 0) /\ ~(pk_count(m) > 1)

RegistryFullMut == Len(models) > MaxModels

\* model_count >= model_capacity
RegistryFull == Len(models) >= MaxModels

corm_register_model(m) ==
    /\ last' = [NoCall EXCEPT !.op = "register", !.model = m,
                   !.ret = RegisterAccepts(m) /\ ~RegistryFull]
    /\ IF ~RegisterAccepts(m)
       THEN UNCHANGED <<models, pkf>>
       ELSE /\ pkf' = [pkf EXCEPT ![m] = pk_field(m)]
            /\ IF RegistryFull
               THEN UNCHANGED models
               ELSE models' = Append(models, m)
    /\ UNCHANGED <<handle, related, tables, autoseq, lastid, heap, result, session,
                   schema, arena>>

(***************************************************************************)
(* The memory of the handle.  An allocator is the pair of functions in     *)
(* db->allocator; a block records the function that allocated it and the   *)
(* function it was released with.                                          *)
(***************************************************************************)
DefaultAllocator == [alloc_fn |-> "NULL", free_fn |-> "NULL"]

Allocators ==
    {DefaultAllocator,
     [alloc_fn |-> "custom_alloc", free_fn |-> "custom_free"],
     [alloc_fn |-> "other_alloc", free_fn |-> "other_free"]}

\* The function corm_alloc_fn allocates with under allocator a.
AllocatorAlloc(a) ==
    IF a.alloc_fn # "NULL" THEN a.alloc_fn ELSE "malloc"

\* The function corm_free_fn releases with under allocator a: with a custom
\* alloc_fn set, its free_fn or nothing at all.
AllocatorFree(a) ==
    IF a.alloc_fn # "NULL"
    THEN (IF a.free_fn # "NULL" THEN a.free_fn ELSE "nothing")
    ELSE "free"

Block(allocated) == [allocated |-> allocated, freed |-> "NULL"]

\* The handle corm_init_with_backend_and_allocator returns.
corm_init(a) ==
    [open |-> TRUE, allocator |-> a, db |-> Block("malloc"),
     internal_arena |-> Block("malloc"),
     models |-> Block(AllocatorAlloc(a))]

corm_set_allocator(a) ==
    /\ handle.open
    /\ handle' = [handle EXCEPT !.allocator = a]
    /\ last' = [NoCall EXCEPT !.op = "set_allocator"]
    /\ UNCHANGED <<models, pkf, related, tables, autoseq, lastid, heap,
                   result, session, schema, arena>>

corm_close ==
    /\ handle.open
    /\ handle' = [handle EXCEPT
                     !.open = FALSE,
                     !.internal_arena.freed = "free",
                     !.models.freed = AllocatorFree(handle.allocator),
                     !.db.freed = "free"]
    /\ last' = [NoCall EXCEPT !.op = "close"]
    /\ UNCHANGED <<models, pkf, related, tables, autoseq, lastid, heap,
                   result, session, schema, arena>>

(***************************************************************************)
(* The backend contract (include/corm_backend.h) as the built-in SQLite    *)
(* backend implements it.  A stored value is SQL NULL, an integer or a     *)
(* text; a row carries its rowid and one value per column.                 *)
(***************************************************************************)
SqlNull == <<"null">>
SqlInt(n) == <<"int", n>>
SqlText(s) == <<"text", s>>

\* The tables the schema sync creates: one per registrable descriptor.
TableNames == { m \in ModelNames : Cardinality(PkIndexes(m)) = 1 }

\* Column order of CREATE TABLE: the non-relationship fields, in order.
ColumnFieldTable ==
    [m \in ModelNames |-> SelectSeq(Fields(m), LAMBDA f : ~IsRelation(f))]

ColumnFields(m) == ColumnFieldTable[m]

ColumnTable ==
    [m \in ModelNames |->
        [i \in 1..Len(ColumnFields(m)) |-> ColumnFields(m)[i].name]]

Columns(m) == ColumnTable[m]

ColumnSetTable ==
    [m \in ModelNames |-> { Columns(m)[i] : i \in 1..Len(Columns(m)) }]

ColumnSet(m) == ColumnSetTable[m]

FieldNamed(m, n) ==
    Fields(m)[CHOOSE i \in 1..field_count(m) : Fields(m)[i].name = n]

\* "<name> INTEGER PRIMARY KEY" is the rowid itself.
IsRowidAlias(f) ==
    /\ PRIMARY_KEY \in f.flags
    /\ f.type \in {FIELD_TYPE_INT, FIELD_TYPE_INT64, FIELD_TYPE_BOOL}

\* The PRIMARY KEY column carries AUTOINCREMENT (rowids are never reused).
AutoincrementTable ==
    [m \in ModelNames |->
        \E i \in 1..field_count(m) :
            /\ IsRowidAlias(Fields(m)[i])
            /\ AUTO_INC \in Fields(m)[i].flags]

IsAutoincrement(m) == AutoincrementTable[m]

\* The FOREIGN KEY clauses of CREATE TABLE: one per belongs-to field, always
\* referencing the column "id" of the target table.
ForeignKeyTable ==
    [m \in ModelNames |->
        { [col |-> Fields(m)[i].fk_column_name,
           target |-> Fields(m)[i].target_model_name] :
            i \in { j \in 1..field_count(m) :
                      Fields(m)[j].type = FIELD_TYPE_BELONGS_TO } }]

ForeignKeys(m) == ForeignKeyTable[m]

RowsOf(db, t) == { db.tables[t][i] : i \in 1..Len(db.tables[t]) }

MaxOf(S) == IF S = {} THEN 0 ELSE CHOOSE x \in S : \A y \in S : y <= x

MaxRowid(db, t) == MaxOf({ r.rowid : r \in RowsOf(db, t) })

\* The rowid the next INSERT into t gets when the statement gives none.
NextRowid(db, t) ==
    IF IsAutoincrement(t)
    THEN MaxOf({db.autoseq[t], MaxRowid(db, t)}) + 1
    ELSE MaxRowid(db, t) + 1

\* WHERE col = ?  (a NULL parameter matches no row).
Matches(row, col, param) ==
    /\ param # SqlNull
    /\ col \in DOMAIN row.cols
    /\ row.cols[col] = param

SelectRows(db, t, col, param) ==
    SelectSeq(db.tables[t], LAMBDA r : Matches(r, col, param))

\* The constraints a row of t has to meet against the other rows.
RowAllowed(db, t, row, others) ==
    /\ \A i \in 1..Len(ColumnFields(t)) :
          LET f == ColumnFields(t)[i] IN
          /\ NOT_NULL \in f.flags => row.cols[f.name] # SqlNull
          /\ ({PRIMARY_KEY, UNIQUE} \cap f.flags # {}
                /\ row.cols[f.name] # SqlNull)
               => \A o \in others : o.cols[f.name] # row.cols[f.name]
    /\ \A fk \in ForeignKeys(t) :
          \/ row.cols[fk.col] = SqlNull
          \/ \E p \in RowsOf(db, fk.target) :
                "id" \in DOMAIN p.cols /\ p.cols["id"] = row.cols[fk.col]

\* INSERT INTO t (cols) VALUES (params): the outcome of step.
ExecInsert(db, t, cols, params) ==
    LET given == [c \in { cols[i] : i \in 1..Len(cols) } |->
                     params[CHOOSE i \in 1..Len(cols) : cols[i] = c]]
        alias == { f \in { ColumnFields(t)[i] : i \in 1..Len(ColumnFields(t)) } :
                      IsRowidAlias(f) }
        rowid == IF \E f \in alias : f.name \in DOMAIN given
                                     /\ given[f.name] # SqlNull
                 THEN given[(CHOOSE f \in alias : f.name \in DOMAIN given).name][2]
                 ELSE NextRowid(db, t)
        row == [rowid |-> rowid,
                cols |-> [c \in ColumnSet(t) |->
                            IF \E f \in alias : f.name = c THEN SqlInt(rowid)
                            ELSE IF c \in DOMAIN given THEN given[c]
                            ELSE SqlNull]]
    IN  IF RowAllowed(db, t, row, RowsOf(db, t))
        THEN [rc |-> 0,
              db |-> [tables |-> [db.tables EXCEPT ![t] = Append(@, row)],
                      autoseq |-> [db.autoseq EXCEPT ![t] =
                                      IF IsAutoincrement(t)
                                      THEN MaxOf({@, rowid}) ELSE @],
                      lastid |-> rowid]]
        ELSE [rc |-> -1, db |-> db]

\* UPDATE t SET cols = params WHERE pkcol = pkparam: the outcome of step.
ExecUpdate(db, t, cols, params, pkcol, pkparam) ==
    LET given == [c \in { cols[i] : i \in 1..Len(cols) } |->
                     params[CHOOSE i \in 1..Len(cols) : cols[i] = c]]
        upd(r) == IF Matches(r, pkcol, pkparam)
                  THEN [r EXCEPT !.cols = [c \in DOMAIN r.cols |->
                           IF c \in DOMAIN given THEN given[c] ELSE r.cols[c]]]
                  ELSE r
        new == [i \in 1..Len(db.tables[t]) |-> upd(db.tables[t][i])]
        ok == \A i \in 1..Len(new) :
                 Matches(db.tables[t][i], pkcol, pkparam) =>
                    RowAllowed(db, t, new[i],
                               { new[j] : j \in (1..Len(new)) \ {i} })
    IN  IF ok
        THEN [rc |-> 0, db |-> [db EXCEPT !.tables[t] = new]]
        ELSE [rc |-> -1, db |-> db]

\* A row of t is referenced by a child row (FOREIGN KEY, NO ACTION).
Referenced(db, t, row) ==
    \E c \in TableNames : \E fk \in ForeignKeys(c) :
        /\ fk.target = t
        /\ "id" \in DOMAIN row.cols
        /\ \E r \in RowsOf(db, c) : r.cols[fk.col] = row.cols["id"]

ExecDeleteMut(db, t, pkcol, pkparam) == [rc |-> 0, db |-> db]

\* DELETE FROM t WHERE pkcol = pkparam: the outcome of step.
ExecDelete(db, t, pkcol, pkparam) ==
    LET victims == { r \in RowsOf(db, t) : Matches(r, pkcol, pkparam) }
    IN  IF \E r \in victims : Referenced(db, t, r)
        THEN [rc |-> -1, db |-> db]
        ELSE [rc |-> 0,
              db |-> [db EXCEPT !.tables[t] =
                         SelectSeq(@, LAMBDA r : r \notin victims)]]

\* prepare rejects a statement with an empty column list.
PrepareOk(sql) ==
    sql.kind \in {"INSERT", "UPDATE"} => Len(sql.cols) > 0

(***************************************************************************)
(* bind_param_by_type and the validators                                   *)
(***************************************************************************)
\* The value a field of the given type is bound as.
bind_param_by_type(type, v) ==
    CASE type \in {FIELD_TYPE_INT, FIELD_TYPE_INT64} -> SqlInt(v)
      [] type = FIELD_TYPE_BOOL -> SqlInt(IF v # 0 THEN 1 ELSE 0)
      [] type = FIELD_TYPE_STRING ->
             IF v = NULL THEN SqlNull ELSE SqlText(v[1])

\* The validators the descriptors name (callbacks of the caller).
Validate(validator, v) ==
    CASE validator = "validate_name" -> v # NULL /\ v # Str("")
      [] validator = "validate_age" -> v >= 0
      [] OTHER -> TRUE

HasValidator(f) == f.validator # "NULL"

\* The first field, in declaration order, whose validator rejects its value
\* (0 when every validator accepts).
FirstRejected(m, inst) ==
    LET bad == { i \in 1..field_count(m) :
                    /\ HasValidator(Fields(m)[i])
                    /\ ~Validate(Fields(m)[i].validator,
                                 inst[Fields(m)[i].name]) }
    IN  IF bad = {} THEN 0 ELSE CHOOSE i \in bad : \A j \in bad : i <= j

ValidatorRunsMut(m, inst) ==
    SelectSeq([i \in 1..field_count(m) |-> Fields(m)[i]], HasValidator)

\* The validators corm_save runs, in order: the loop returns at the first
\* rejection.
ValidatorRuns(m, inst) ==
    LET stop == FirstRejected(m, inst)
        upto == IF stop = 0 THEN field_count(m) ELSE stop
    IN  SelectSeq([i \in 1..upto |-> Fields(m)[i]], HasValidator)

Names(fs) == [i \in 1..Len(fs) |-> fs[i].name]

(***************************************************************************)
(* corm_record_exists and corm_save                                        *)
(***************************************************************************)
\* SELECT COUNT(*) FROM t WHERE pk = ?  > 0
corm_record_exists(db, m, pk, inst) ==
    Len(SelectRows(db, m, pk.name,
                   bind_param_by_type(pk.type, inst[pk.name]))) > 0

RecordExistsCalls == <<"prepare", "bind", "step", "finalize">>

\* The fields of the SET list of the UPDATE statement, for a field list.
UpdateSetOf(fs) ==
    SelectSeq(fs, LAMBDA f :
        /\ ~IsRelation(f)
        /\ ~(PRIMARY_KEY \in f.flags \/ AUTO_INC \in f.flags))

UpdateSetTable == [m \in ModelNames |-> UpdateSetOf(Fields(m))]

UpdateSetFields(m) == UpdateSetTable[m]

\* The fields of the column list of the INSERT statement.
InsertOf(fs) ==
    SelectSeq(fs, LAMBDA f : ~IsRelation(f) /\ AUTO_INC \notin f.flags)

InsertTable == [m \in ModelNames |-> InsertOf(Fields(m))]

InsertFields(m) == InsertTable[m]

\* A bind loop that leaves the primary key in when updating.
BoundOfMut(fs, is_update) ==
    SelectSeq(fs, LAMBDA f : ~IsRelation(f) /\ AUTO_INC \notin f.flags)

\* The fields the bind loop binds, in order.
BoundOf(fs, is_update) ==
    SelectSeq(fs, LAMBDA f :
        /\ ~IsRelation(f)
        /\ AUTO_INC \notin f.flags
        /\ ~(is_update /\ PRIMARY_KEY \in f.flags))

BoundTable ==
    [m \in ModelNames, is_update \in BOOLEAN |->
        BoundOf(Fields(m), is_update)]

BoundFields(m, is_update) == BoundTable[m, is_update]

SaveSql(m, pk, is_update) ==
    IF is_update
    THEN [kind |-> "UPDATE", table |-> m,
          cols |-> Names(UpdateSetFields(m)), where |-> pk.name]
    ELSE [kind |-> "INSERT", table |-> m,
          cols |-> Names(InsertFields(m)), where |-> "NULL"]

WriteBackMut(inst, pk, is_update, id) ==
    IF pk.type = FIELD_TYPE_INT THEN [inst EXCEPT ![pk.name] = id]
    ELSE IF pk.type = FIELD_TYPE_INT64 THEN [inst EXCEPT ![pk.name] = id]
    ELSE inst

\* The caller's instance after a successful step: the last insert id is
\* stored in an auto-increment primary key of an inserted row (the rowids
\* of the model are far below INT_MAX, so (int)last_id keeps the value).
WriteBack(inst, pk, is_update, id) ==
    IF ~is_update /\ AUTO_INC \in pk.flags
    THEN IF pk.type = FIELD_TYPE_INT
         THEN [inst EXCEPT ![pk.name] = id]
         ELSE IF pk.type = FIELD_TYPE_INT64
              THEN [inst EXCEPT ![pk.name] = id]
              ELSE inst
    ELSE inst

SaveWritesBack(pk, is_update) == ~is_update /\ AUTO_INC \in pk.flags

\* The whole of corm_save on the store db: return value, the store and the
\* caller's instance afterwards, and the trace of validator and backend
\* calls.
SaveOutcome(db, pkidx, m, inst) ==
    LET fail(calls, vlog, existed) ==
            [ret |-> FALSE, db |-> db, inst |-> inst, calls |-> calls,
             vlog |-> vlog, existed |-> existed]
    IN
    IF pkidx = 0 THEN fail(<<>>, <<>>, FALSE)
    ELSE
    LET pk == Fields(m)[pkidx]
        vlog == Names(ValidatorRuns(m, inst))
    IN
    IF FirstRejected(m, inst) # 0 THEN fail(<<>>, vlog, FALSE)
    ELSE
    LET is_update == corm_record_exists(db, m, pk, inst)
        sql == SaveSql(m, pk, is_update)
        c1 == RecordExistsCalls \o <<"prepare">>
    IN
    IF ~PrepareOk(sql) THEN fail(c1, vlog, is_update)
    ELSE
    LET bound == BoundFields(m, is_update)
        params == [i \in 1..Len(bound) |->
                      bind_param_by_type(bound[i].type, inst[bound[i].name])]
        c2 == c1 \o [i \in 1..Len(bound) |-> "bind"]
                 \o (IF is_update THEN <<"bind">> ELSE <<>>) \o <<"step">>
        out == IF is_update
               THEN ExecUpdate(db, m, sql.cols, params, sql.where,
                               bind_param_by_type(pk.type, inst[pk.name]))
               ELSE ExecInsert(db, m, sql.cols, params)
    IN
    IF out.rc < 0 THEN fail(c2 \o <<"finalize">>, vlog, is_update)
    ELSE [ret |-> TRUE, db |-> out.db,
          inst |-> WriteBack(inst, pk, is_update, out.db.lastid),
          calls |-> c2 \o (IF SaveWritesBack(pk, is_update)
                           THEN <<"last_insert_id">> ELSE <<>>)
                      \o <<"finalize">>,
          vlog |-> vlog, existed |-> is_update]

Store == [tables |-> tables, autoseq |-> autoseq, lastid |-> lastid]

WithinBounds(db) ==
    \A t \in TableNames :
        MaxRowid(db, t) <= MaxId /\ db.autoseq[t] <= MaxId

NoSession == [base |-> {}, loads |-> 0, failed |-> 0]

NoResult ==
    [blk |-> 0, data |-> 0, count |-> 0, meta |-> "NULL",
     allocations |-> <<>>, track |-> 0, allocation_capacity |-> 0]

corm_save(m, inst) ==
    LET o == SaveOutcome(Store, pkf[m], m, inst) IN
    /\ WithinBounds(o.db)
    /\ tables' = o.db.tables
    /\ autoseq' = o.db.autoseq
    /\ lastid' = o.db.lastid
    /\ last' = [NoCall EXCEPT !.op = "save", !.model = m, !.ret = o.ret,
                   !.arg = inst, !.inst = o.inst, !.calls = o.calls,
                   !.vlog = o.vlog, !.existed = o.existed]
    /\ arena' = corm_arena_end_temp(corm_arena_start_temp(arena))
    /\ UNCHANGED <<handle, models, pkf, related, heap, result, session, schema>>

(***************************************************************************)
(* corm_delete                                                             *)
(***************************************************************************)
\* The return value of corm_delete after step returned rc, the statement
\* having removed `removed` rows.
DeleteReturns(rc, removed) == ~(rc < 0)

DeleteOutcome(db, pkidx, m, pkval) ==
    IF pkidx = 0
    THEN [ret |-> FALSE, db |-> db, calls |-> <<>>, rc |-> 0, removed |-> 0]
    ELSE
    LET pk == Fields(m)[pkidx]
        out == ExecDelete(db, m, pk.name, bind_param_by_type(pk.type, pkval))
        removed == Len(db.tables[m]) - Len(out.db.tables[m])
    IN  [ret |-> DeleteReturns(out.rc, removed), db |-> out.db,
         calls |-> <<"prepare", "bind", "step", "finalize">>,
         rc |-> out.rc, removed |-> removed]

corm_delete(m, pkval) ==
    LET o == DeleteOutcome(Store, pkf[m], m, pkval) IN
    /\ tables' = o.db.tables
    /\ autoseq' = o.db.autoseq
    /\ lastid' = o.db.lastid
    /\ last' = [NoCall EXCEPT !.op = "delete", !.model = m, !.ret = o.ret,
                   !.arg = [pk |-> pkval], !.calls = o.calls,
                   !.existed = o.removed > 0,
                   !.inst = [rc |-> o.rc]]
    /\ arena' = corm_arena_end_temp(corm_arena_start_temp(arena))
    /\ UNCHANGED <<handle, models, pkf, related, heap, result, session, schema>>

(***************************************************************************)
(* The allocator (corm_alloc_fn / corm_free_fn) and the result container.  *)
(* A working heap h carries the live blocks, the flag of an invalid free   *)
(* (a block freed twice, or never allocated) and the number n of           *)
(* allocation requests of the running call; the requests whose number is   *)
(* in `fails` return NULL.                                                 *)
(***************************************************************************)
\* A local variable of a C function: v is computed once and named in F.
Bind(v, F(_)) == F(v)

FreshId(live) ==
    CHOOSE id \in 1..(Cardinality(DOMAIN live) + 1) : id \notin DOMAIN live

corm_alloc_fn(h, fails, kind, val) ==
    IF (h.n + 1) \in fails
    THEN [h |-> [h EXCEPT !.n = @ + 1], ptr |-> 0]
    ELSE LET id == FreshId(h.live) IN
         [h |-> [h EXCEPT !.n = @ + 1,
                          !.live = [b \in DOMAIN h.live \cup {id} |->
                                       IF b = id
                                       THEN [kind |-> kind, val |-> val]
                                       ELSE h.live[b]]],
          ptr |-> id]

\* free(NULL) does nothing; freeing a block that is not live is an error.
corm_free_fn(h, ptr) ==
    IF ptr = 0 THEN h
    ELSE IF ptr \notin DOMAIN h.live THEN [h EXCEPT !.bad = TRUE]
    ELSE [h EXCEPT !.live = [b \in DOMAIN h.live \ {ptr} |-> h.live[b]]]

RECURSIVE FreeAll(_, _)
FreeAll(h, ptrs) ==
    IF ptrs = <<>> THEN h
    ELSE FreeAll(corm_free_fn(h, Head(ptrs)), Tail(ptrs))

corm_result_create(h, fails, meta) ==
    Bind(corm_alloc_fn(h, fails, "result", <<>>), LAMBDA a1 :
    IF a1.ptr = 0 THEN [h |-> a1.h, res |-> NoResult]
    ELSE
    Bind(corm_alloc_fn(a1.h, fails, "track", <<>>), LAMBDA a2 :
    IF a2.ptr = 0
    THEN [h |-> corm_free_fn(a2.h, a1.ptr), res |-> NoResult]
    ELSE [h |-> a2.h,
          res |-> [blk |-> a1.ptr, data |-> 0, count |-> 0, meta |-> meta,
                   allocations |-> <<>>, track |-> a2.ptr,
                   allocation_capacity |-> InitialCapacity]]))

corm_result_track(h, fails, res, ptr) ==
    IF ptr = 0 \/ res.blk = 0 THEN [ok |-> FALSE, h |-> h, res |-> res]
    ELSE
    IF Len(res.allocations) >= res.allocation_capacity
    THEN Bind(corm_alloc_fn(h, fails, "track", <<>>), LAMBDA a :
         IF a.ptr = 0 THEN [ok |-> FALSE, h |-> a.h, res |-> res]
         ELSE [ok |-> TRUE,
               h |-> corm_free_fn(a.h, res.track),
               res |-> [res EXCEPT !.track = a.ptr,
                           !.allocation_capacity = @ * 2,
                           !.allocations = Append(@, ptr)]])
    ELSE [ok |-> TRUE, h |-> h,
          res |-> [res EXCEPT !.allocations = Append(@, ptr)]]

\* An allocate-then-track that keeps the fresh block when tracking fails.
ResultAllocMut(h, fails, res, kind, val) ==
    Bind(corm_alloc_fn(h, fails, kind, val), LAMBDA a :
    IF a.ptr = 0 THEN [h |-> a.h, res |-> res, ptr |-> 0]
    ELSE Bind(corm_result_track(a.h, fails, res, a.ptr), LAMBDA t :
         IF ~t.ok
         THEN [h |-> t.h, res |-> t.res, ptr |-> 0]
         ELSE [h |-> t.h, res |-> t.res, ptr |-> a.ptr]))

corm_result_alloc(h, fails, res, kind, val) ==
    Bind(corm_alloc_fn(h, fails, kind, val), LAMBDA a :
    IF a.ptr = 0 THEN [h |-> a.h, res |-> res, ptr |-> 0]
    ELSE Bind(corm_result_track(a.h, fails, res, a.ptr), LAMBDA t :
         IF ~t.ok
         THEN [h |-> corm_free_fn(t.h, a.ptr), res |-> t.res, ptr |-> 0]
         ELSE [h |-> t.h, res |-> t.res, ptr |-> a.ptr]))

FreeResultMut(h, res) ==
    corm_free_fn(corm_free_fn(FreeAll(h, res.allocations), res.track),
                 res.blk)

\* corm_free_result: every tracked pointer, the tracking array, the instance
\* buffer, the container.
FreeResult(h, res) ==
    IF res.blk = 0 THEN h
    ELSE corm_free_fn(
             corm_free_fn(
                 corm_free_fn(FreeAll(h, res.allocations), res.track),
                 res.data),
             res.blk)

(***************************************************************************)
(* Row materialisation: extract_field_from_column and the field loop that  *)
(* corm_find, corm_find_all, corm_where_raw and corm_load_has_many share.  *)
(* In a materialised instance a char* field is a pointer to a tracked      *)
(* block holding the text.                                                 *)
(***************************************************************************)
MemberNames(m) ==
    { Fields(m)[i].name : i \in 1..field_count(m) }
        \cup { Fields(m)[i].count_field :
                 i \in { j \in 1..field_count(m) :
                           Fields(m)[j].type = FIELD_TYPE_HAS_MANY } }

\* memset(instance, 0, struct_size)
ZeroTable == [m \in ModelNames |-> [n \in MemberNames(m) |-> 0]]

ZeroInstance(m) == ZeroTable[m]

\* column_int / column_int64 / column_text of the backend (a text that is
\* no number reads as 0).
column_int(v) == IF v[1] = "int" THEN v[2] ELSE 0

column_int64(v) == IF v[1] = "int" THEN v[2] ELSE 0

column_text(v) == IF v[1] = "text" THEN v[2] ELSE ToString(v[2])

extract_field_from_column(h, fails, res, v, type) ==
    IF v = SqlNull THEN [h |-> h, res |-> res, set |-> FALSE, val |-> 0]
    ELSE
    CASE type = FIELD_TYPE_INT ->
            [h |-> h, res |-> res, set |-> TRUE, val |-> column_int(v)]
      [] type = FIELD_TYPE_BOOL ->
            [h |-> h, res |-> res, set |-> TRUE,
             val |-> IF column_int(v) # 0 THEN 1 ELSE 0]
      [] type = FIELD_TYPE_INT64 ->
            [h |-> h, res |-> res, set |-> TRUE, val |-> column_int64(v)]
      [] type = FIELD_TYPE_STRING ->
            Bind(corm_result_alloc(h, fails, res, "str",
                                   Str(column_text(v))),
                 LAMBDA a :
                    [h |-> a.h, res |-> a.res, set |-> a.ptr # 0,
                     val |-> a.ptr])
      [] OTHER -> [h |-> h, res |-> res, set |-> FALSE, val |-> 0]

\* A lookup that starts from the last column instead of "none".
ColIdxMut(cols, name) ==
    IF \E j \in 1..Len(cols) : cols[j] = name
    THEN CHOOSE j \in 1..Len(cols) :
            cols[j] = name /\ \A k \in 1..(j - 1) : cols[k] # name
    ELSE Len(cols)

\* The index of the column called name in the result set (0: none).
ColIdx(cols, name) ==
    IF \E j \in 1..Len(cols) : cols[j] = name
    THEN CHOOSE j \in 1..Len(cols) :
            cols[j] = name /\ \A k \in 1..(j - 1) : cols[k] # name
    ELSE 0

\* The field loop over one row: ctx is [h, res, inst].
RECURSIVE PopulateInstance(_, _, _, _, _, _)
PopulateInstance(ctx, fails, m, cols, row, i) ==
    IF i > field_count(m) THEN ctx
    ELSE
    Bind(ColIdx(cols, Fields(m)[i].name), LAMBDA j :
    IF IsRelation(Fields(m)[i]) \/ j = 0
    THEN PopulateInstance(ctx, fails, m, cols, row, i + 1)
    ELSE
    Bind(extract_field_from_column(ctx.h, fails, ctx.res,
                                   row.cols[cols[j]], Fields(m)[i].type),
         LAMBDA e :
            PopulateInstance(
                [h |-> e.h, res |-> e.res,
                 inst |-> IF e.set
                          THEN [ctx.inst EXCEPT ![Fields(m)[i].name] = e.val]
                          ELSE ctx.inst],
                fails, m, cols, row, i + 1)))

SetInstance(h, blk, idx, inst) ==
    [h EXCEPT !.live[blk].val[idx] = inst]

\* The row loop: row idx of rows goes to slot idx of the block `data`;
\* ctx is [h, res].
RECURSIVE PopulateRows(_, _, _, _, _, _, _)
PopulateRows(ctx, fails, m, rows, data, count, idx) ==
    IF idx > Len(rows) \/ idx > count THEN ctx
    ELSE
    Bind(PopulateInstance(
             [h |-> ctx.h, res |-> ctx.res,
              inst |-> ctx.h.live[data].val[idx]],
             fails, m, Columns(m), rows[idx], 1),
         LAMBDA c :
            PopulateRows([h |-> SetInstance(c.h, data, idx, c.inst),
                          res |-> c.res],
                         fails, m, rows, data, count, idx + 1))

ZeroArray(m, count) == [i \in 1..count |-> ZeroInstance(m)]

(***************************************************************************)
(* corm_find                                                               *)
(***************************************************************************)
\* The backend calls of corm_find.
QueryCalls == <<"prepare", "bind", "step", "finalize">>

FindOutcome(db, h, fails, pkidx, m, pkval) ==
    Bind(SelectRows(db, m, Fields(m)[pkidx].name,
                    bind_param_by_type(Fields(m)[pkidx].type, pkval)),
         LAMBDA rows :
    IF rows = <<>> THEN [h |-> h, res |-> NoResult, calls |-> QueryCalls]
    ELSE
    Bind(corm_result_create(h, fails, m), LAMBDA r :
    IF r.res.blk = 0 THEN [h |-> r.h, res |-> NoResult, calls |-> QueryCalls]
    ELSE
    Bind(corm_alloc_fn(r.h, fails, "inst", ZeroArray(m, 1)), LAMBDA a :
    IF a.ptr = 0
    THEN [h |-> corm_free_fn(corm_free_fn(a.h, r.res.track), r.res.blk),
          res |-> NoResult, calls |-> QueryCalls]
    ELSE
    Bind(PopulateRows([h |-> a.h,
                       res |-> [r.res EXCEPT !.data = a.ptr, !.count = 1]],
                      fails, m, <<rows[1]>>, a.ptr, 1, 1),
         LAMBDA c : [h |-> c.h, res |-> c.res, calls |-> QueryCalls]))))

StartHeap == [live |-> heap.live, bad |-> heap.bad, n |-> 0]

\* The history of the result a query returns (none when it returns NULL).
NewSession(res) ==
    IF res.blk = 0 THEN NoSession
    ELSE [base |-> DOMAIN heap.live, loads |-> 0, failed |-> 0]

EndHeap(h) == [live |-> h.live, bad |-> h.bad]

corm_find(m, pkval, fails) ==
    /\ result.blk = 0
    /\ pkf[m] # 0
    /\ \E o \in {FindOutcome(Store, StartHeap, fails, pkf[m], m, pkval)} :
       /\ heap' = EndHeap(o.h)
       /\ result' = o.res
       /\ session' = NewSession(o.res)
       /\ last' = [NoCall EXCEPT !.op = "find", !.model = m,
                      !.ret = o.res.blk # 0, !.arg = [pk |-> pkval],
                      !.calls = o.calls]
    /\ arena' = corm_arena_end_temp(corm_arena_start_temp(arena))
    /\ UNCHANGED <<handle, models, pkf, related, tables, autoseq, lastid, schema>>

(***************************************************************************)
(* corm_find_all and corm_where_raw                                        *)
(***************************************************************************)
\* The rest of both calls once the number of rows is known.
FillOutcome(h, fails, m, rows, count, early, calls) ==
    Bind(corm_result_create(h, fails, m), LAMBDA r :
    IF r.res.blk = 0 THEN [h |-> r.h, res |-> NoResult, calls |-> early]
    ELSE
    Bind(corm_alloc_fn(r.h, fails, "inst", ZeroArray(m, count)), LAMBDA a :
    IF a.ptr = 0
    THEN [h |-> corm_free_fn(corm_free_fn(a.h, r.res.track), r.res.blk),
          res |-> NoResult, calls |-> early]
    ELSE
    Bind(PopulateRows([h |-> a.h,
                       res |-> [r.res EXCEPT !.data = a.ptr,
                                             !.count = count]],
                      fails, m, rows, a.ptr, count, 1),
         LAMBDA c : [h |-> c.h, res |-> c.res, calls |-> calls])))

FindAllOutcome(db, h, fails, m) ==
    LET rows == db.tables[m]
        record_count == Len(rows)
    IN
    IF record_count = 0
    THEN [h |-> h, res |-> NoResult,
          calls |-> <<"prepare", "step", "finalize">>]
    ELSE FillOutcome(h, fails, m, rows, record_count,
                     <<"prepare", "step", "finalize">>,
                     <<"prepare", "step", "finalize", "prepare", "step",
                       "finalize">>)

corm_find_all(m, fails) ==
    /\ result.blk = 0
    /\ \E o \in {FindAllOutcome(Store, StartHeap, fails, m)} :
       /\ heap' = EndHeap(o.h)
       /\ result' = o.res
       /\ session' = NewSession(o.res)
       /\ last' = [NoCall EXCEPT !.op = "find_all", !.model = m,
                      !.ret = o.res.blk # 0, !.calls = o.calls]
    /\ arena' = corm_arena_end_temp(corm_arena_start_temp(arena))
    /\ UNCHANGED <<handle, models, pkf, related, tables, autoseq, lastid, schema>>

\* A WHERE fragment is a list of tokens: terms  <column> <op> ?  joined by
\* AND; the i-th "?" takes the i-th bound parameter.
TermCount(clause) == (Len(clause) + 1) \div 4

TermHolds(row, col, op, param) ==
    /\ param # SqlNull
    /\ col \in DOMAIN row.cols
    /\ row.cols[col] # SqlNull
    /\ row.cols[col][1] = param[1]
    /\ CASE op = "=" -> row.cols[col][2] = param[2]
         [] op = ">=" -> row.cols[col][2] >= param[2]
         [] OTHER -> FALSE

WhereHolds(row, clause, params) ==
    \A i \in 1..TermCount(clause) :
        TermHolds(row, clause[4 * (i - 1) + 1], clause[4 * (i - 1) + 2],
                  IF i <= Len(params) THEN params[i] ELSE SqlNull)

WhereOutcome(db, h, fails, m, clause, values, types) ==
    LET params == [i \in 1..Len(values) |->
                      bind_param_by_type(types[i], values[i])]
        rows == SelectSeq(db.tables[m],
                          LAMBDA r : WhereHolds(r, clause, params))
        result_count == Len(rows)
        c1 == <<"prepare">> \o [i \in 1..Len(values) |-> "bind"]
                 \o <<"step">>
    IN
    IF result_count = 0
    THEN [h |-> h, res |-> NoResult, calls |-> c1 \o <<"finalize">>]
    ELSE FillOutcome(h, fails, m, rows, result_count,
                     c1 \o <<"reset", "finalize">>,
                     c1 \o <<"reset", "step", "finalize">>)

corm_where_raw(m, clause, values, types, fails) ==
    /\ result.blk = 0
    /\ \E o \in {WhereOutcome(Store, StartHeap, fails, m, clause, values,
                             types)} :
       /\ heap' = EndHeap(o.h)
       /\ result' = o.res
       /\ session' = NewSession(o.res)
       /\ last' = [NoCall EXCEPT !.op = "where_raw", !.model = m,
                      !.ret = o.res.blk # 0, !.calls = o.calls]
    /\ arena' = corm_arena_end_temp(corm_arena_start_temp(arena))
    /\ UNCHANGED <<handle, models, pkf, related, tables, autoseq, lastid, schema>>

(***************************************************************************)
(* corm_load_relation: corm_load_belongs_to and corm_load_has_many.        *)
(* inst is the caller's instance (a slot of a block of the result), rel    *)
(* the related_model the field was resolved to.                            *)
(***************************************************************************)
\* The value a char* member points at, for binding.
Deref(h, type, v) ==
    IF type = FIELD_TYPE_STRING
    THEN IF v = 0 THEN NULL ELSE h.live[v].val
    ELSE v

HasField(m, n) == \E i \in 1..field_count(m) : Fields(m)[i].name = n

\* The is_null switch of corm_load_belongs_to over the foreign key member v
\* (text is what a non-null char* points at).
FkIsNull(type, v, text) ==
    CASE type \in {FIELD_TYPE_INT, FIELD_TYPE_BOOL, FIELD_TYPE_INT64} -> v = 0
      [] type = FIELD_TYPE_STRING -> v = 0
      [] OTHER -> FALSE

\* corm_result_track of allocations[i..] of the related result, stopping at
\* the first failure.
RECURSIVE TrackAll(_, _, _, _, _)
TrackAll(h, fails, res, ptrs, i) ==
    IF i > Len(ptrs) THEN [ok |-> TRUE, h |-> h, res |-> res]
    ELSE Bind(corm_result_track(h, fails, res, ptrs[i]), LAMBDA t :
         IF ~t.ok THEN [ok |-> FALSE, h |-> t.h, res |-> t.res]
         ELSE TrackAll(t.h, fails, t.res, ptrs, i + 1))

ReleaseRelatedMut(h, related_result) ==
    corm_free_fn(h, related_result.blk)

\* What is left of the related result once its blocks were handed to the
\* parent: the tracking array and the container are freed.
ReleaseRelated(h, related_result) ==
    corm_free_fn(corm_free_fn(h, related_result.track), related_result.blk)

corm_load_belongs_to(db, h, fails, res, m, inst, fi, rel, pkfs) ==
    LET field == Fields(m)[fi]
        fail(hh, rr, calls) ==
            [ret |-> FALSE, h |-> hh, res |-> rr, inst |-> inst,
             calls |-> calls]
    IN
    IF ~HasField(m, field.fk_column_name) THEN fail(h, res, <<>>)
    ELSE IF rel = "NULL" THEN fail(h, res, <<>>)
    ELSE
    Bind(FieldNamed(m, field.fk_column_name), LAMBDA fk_field :
    Bind(Deref(h, fk_field.type, inst[fk_field.name]), LAMBDA text :
    IF FkIsNull(fk_field.type, inst[fk_field.name], text)
    THEN [ret |-> TRUE, h |-> h, res |-> res,
          inst |-> [inst EXCEPT ![field.name] = 0], calls |-> <<>>]
    ELSE
    Bind(FindOutcome(db, h, fails, pkfs[rel], rel, text), LAMBDA o :
    IF o.res.blk = 0 THEN fail(o.h, res, o.calls)
    ELSE
    \* related_instance is o.res.data
    Bind(corm_result_track(o.h, fails, res, o.res.data), LAMBDA t0 :
    IF ~t0.ok THEN fail(FreeResult(t0.h, o.res), t0.res, o.calls)
    ELSE
    Bind(TrackAll(t0.h, fails, t0.res, o.res.allocations, 1), LAMBDA tr :
    IF ~tr.ok THEN fail(ReleaseRelated(tr.h, o.res), tr.res, o.calls)
    ELSE [ret |-> TRUE, h |-> ReleaseRelated(tr.h, o.res), res |-> tr.res,
          inst |-> [inst EXCEPT ![field.name] = o.res.data],
          calls |-> o.calls])))))

HasManyStoreMut(inst, field, instances, count) ==
    [inst EXCEPT ![field.name] = instances]

\* The two stores that end corm_load_has_many: the array at the field's
\* offset, the number of rows at its count offset.
HasManyStore(inst, field, instances, count) ==
    [inst EXCEPT ![field.name] = instances, ![field.count_field] = count]

corm_load_has_many(db, h, fails, res, m, inst, fi, rel, pkfs) ==
    LET field == Fields(m)[fi]
        pk == Fields(m)[pkfs[m]]
        fail(hh, rr, calls) ==
            [ret |-> FALSE, h |-> hh, res |-> rr, inst |-> inst,
             calls |-> calls]
        \* prepare, bind, the counting loop, reset
        c1(count) == <<"prepare", "bind">>
                        \o [i \in 1..(count + 1) |-> "step"] \o <<"reset">>
        \* ... the fill loop, finalize
        c2(count) == c1(count) \o [i \in 1..(count + 1) |-> "step"]
                        \o <<"finalize">>
    IN
    IF rel = "NULL" THEN fail(h, res, <<>>)
    ELSE
    Bind(SelectRows(db, rel, field.fk_column_name,
                    bind_param_by_type(pk.type,
                                       Deref(h, pk.type, inst[pk.name]))),
         LAMBDA rows :
    IF Len(rows) = 0
    THEN [ret |-> TRUE, h |-> h, res |-> res,
          inst |-> HasManyStore(inst, field, 0, 0),
          calls |-> c2(0)]
    ELSE
    Bind(corm_alloc_fn(h, fails, "inst", ZeroArray(rel, Len(rows))),
         LAMBDA a :
    IF a.ptr = 0 THEN fail(a.h, res, c1(Len(rows)) \o <<"finalize">>)
    ELSE
    Bind(corm_result_track(a.h, fails, res, a.ptr), LAMBDA t :
    IF ~t.ok
    THEN fail(corm_free_fn(t.h, a.ptr), t.res,
              c1(Len(rows)) \o <<"finalize">>)
    ELSE
    Bind(PopulateRows([h |-> t.h, res |-> t.res], fails, rel, rows,
                      a.ptr, Len(rows), 1),
         LAMBDA c :
            [ret |-> TRUE, h |-> c.h, res |-> c.res,
             inst |-> HasManyStore(inst, field, a.ptr, Len(rows)),
             calls |-> c2(Len(rows))]))))

corm_load_relation(db, h, fails, res, m, inst, field_name, rels, pkfs) ==
    IF ~HasField(m, field_name)
    THEN [ret |-> FALSE, h |-> h, res |-> res, inst |-> inst,
          calls |-> <<>>]
    ELSE
    Bind(CHOOSE i \in 1..field_count(m) :
             /\ Fields(m)[i].name = field_name
             /\ \A k \in 1..(i - 1) : Fields(m)[k].name # field_name,
         LAMBDA fi :
    IF Fields(m)[fi].type = FIELD_TYPE_BELONGS_TO
    THEN corm_load_belongs_to(db, h, fails, res, m, inst, fi,
                              rels[<<m, fi>>], pkfs)
    ELSE IF Fields(m)[fi].type = FIELD_TYPE_HAS_MANY
    THEN corm_load_has_many(db, h, fails, res, m, inst, fi,
                            rels[<<m, fi>>], pkfs)
    ELSE [ret |-> FALSE, h |-> h, res |-> res, inst |-> inst,
          calls |-> <<>>])

\* The caller loads a relation of slot idx of the result it holds.
LoadRelation(idx, field_name, fails) ==
    /\ result.blk # 0
    /\ session.loads + session.failed < MaxLoads
    /\ idx \in 1..result.count
    /\ \E inst \in {heap.live[result.data].val[idx]} :
       \E o \in {corm_load_relation(Store, StartHeap, fails, result,
                                   result.meta, inst, field_name, related,
                                   pkf)} :
       /\ heap' = EndHeap(SetInstance(o.h, result.data, idx, o.inst))
       /\ result' = o.res
       /\ session' = IF o.ret THEN [session EXCEPT !.loads = @ + 1]
                     ELSE [session EXCEPT !.failed = @ + 1]
       /\ last' = [NoCall EXCEPT !.op = "load_relation",
                      !.model = result.meta, !.ret = o.ret,
                      !.arg = [idx |-> idx, field |-> field_name,
                               before |-> inst, fails |-> fails],
                      !.inst = o.inst, !.calls = o.calls]
    /\ arena' = corm_arena_end_temp(corm_arena_start_temp(arena))
    /\ UNCHANGED <<handle, models, pkf, related, tables, autoseq, lastid, schema>>

(***************************************************************************)
(* corm_free_result                                                        *)
(***************************************************************************)
corm_free_result ==
    /\ result.blk # 0
    /\ heap' = EndHeap(FreeResult(StartHeap, result))
    /\ result' = NoResult
    /\ session' = NoSession
    /\ last' = [NoCall EXCEPT !.op = "free_result", !.model = result.meta,
                   !.ret = TRUE, !.arg = session, !.inst = result]
    /\ UNCHANGED <<handle, models, pkf, related, tables, autoseq, lastid, schema,
                   arena>>

(***************************************************************************)
(* corm_sync, against a backend that implements the whole contract of      *)
(* include/corm_backend.h (table_exists, set_foreign_keys, execute).  The  *)
(* trace of a run lists its backend calls: <<"table_exists", t>>,          *)
(* <<"set_foreign_keys", "false" | "true">>, <<"DROP", t>>, <<"CREATE", t>>.*)
(* The execute call number execfail (0: none) is refused by the backend.   *)
(***************************************************************************)
CORM_SYNC_SAFE == "SAFE"
CORM_SYNC_DROP == "DROP"
CORM_SYNC_MIGRATE == "MIGRATE"

SyncModes == {CORM_SYNC_SAFE, CORM_SYNC_DROP, CORM_SYNC_MIGRATE}

TargetRegisteredMut(ms, target) == TRUE

\* The inner loop of corm_resolve_relationships: some registered entity has
\* the table name the field names.
TargetRegistered(ms, target) == \E k \in 1..Len(ms) : ms[k] = target

\* The relationship fields in the order corm_resolve_relationships visits
\* them: registry order, then declaration order.
RECURSIVE ResolveOrder(_, _)
ResolveOrder(ms, i) ==
    IF i > Len(ms) THEN <<>>
    ELSE SelectSeq([j \in 1..field_count(ms[i]) |-> <<ms[i], j>>],
                   LAMBDA k : IsRelation(Fields(k[1])[k[2]]))
            \o ResolveOrder(ms, i + 1)

RECURSIVE ResolveFrom(_, _, _, _)
ResolveFrom(ms, rels, keys, i) ==
    IF i > Len(keys) THEN [ok |-> TRUE, related |-> rels]
    ELSE IF TargetRegistered(ms, Fields(keys[i][1])[keys[i][2]]
                                     .target_model_name)
    THEN ResolveFrom(ms,
                     [rels EXCEPT ![keys[i]] =
                         Fields(keys[i][1])[keys[i][2]].target_model_name],
                     keys, i + 1)
    ELSE [ok |-> FALSE, related |-> [rels EXCEPT ![keys[i]] = "NULL"]]

corm_resolve_relationships(ms, rels) ==
    ResolveFrom(ms, rels, ResolveOrder(ms, 1), 1)

TableExistsMut(sch, t) == FALSE

corm_table_exists(sch, t) == t \in sch

\* The arena space corm_generate_create_table_sql takes and never gives
\* back: one unit per column clause and per FOREIGN KEY clause.
CreateSqlSize(m) == Len(Columns(m)) + Cardinality(ForeignKeys(m))

\* The arena space of one "DROP TABLE IF EXISTS <t>;".
DropSqlSize(m) == 1

\* execute("CREATE TABLE IF NOT EXISTS t (...)") on the backend state c.
ExecCreate(c, t) ==
    [c EXCEPT !.schema = @ \cup {t},
              !.calls = Append(@, <<"CREATE", t>>),
              !.nexec = @ + 1]

\* execute("DROP TABLE IF EXISTS t;"): the table, its rows and its
\* AUTOINCREMENT counter go.
ExecDrop(c, t) ==
    [c EXCEPT !.schema = @ \ {t},
              !.tables[t] = <<>>,
              !.autoseq[t] = 0,
              !.calls = Append(@, <<"DROP", t>>),
              !.nexec = @ + 1]

\* An execute call the backend refuses: nothing changes but the trace.
ExecRefused(c, kind, t) ==
    [c EXCEPT !.calls = Append(@, <<kind, t>>), !.nexec = @ + 1,
              !.ret = FALSE]

\* The loop of CORM_SYNC_SAFE from entity i on.
RECURSIVE SyncSafeLoop(_, _, _, _)
SyncSafeLoop(c, ms, execfail, i) ==
    IF i > Len(ms) THEN c
    ELSE IF corm_table_exists(c.schema, ms[i])
    THEN SyncSafeLoop(
             [c EXCEPT !.calls = Append(@, <<"table_exists", ms[i]>>)],
             ms, execfail, i + 1)
    ELSE IF c.nexec + 1 = execfail
    THEN ExecRefused(
             [c EXCEPT !.calls = Append(@, <<"table_exists", ms[i]>>),
                       !.arena = corm_arena_alloc(@, CreateSqlSize(ms[i]))],
             "CREATE", ms[i])
    ELSE SyncSafeLoop(
             ExecCreate(
                 [c EXCEPT !.calls = Append(@, <<"table_exists", ms[i]>>),
                           !.arena = corm_arena_alloc(@,
                                                      CreateSqlSize(ms[i]))],
                 ms[i]),
             ms, execfail, i + 1)

\* The DROP loop of CORM_SYNC_DROP: each statement is built inside a
\* temporary scope of the arena.
RECURSIVE SyncDropLoop(_, _, _, _)
SyncDropLoop(c, ms, execfail, i) ==
    IF i > Len(ms) THEN c
    ELSE IF c.nexec + 1 = execfail
    THEN ExecRefused(
             [c EXCEPT !.arena = corm_arena_end_temp(
                                     corm_arena_start_temp(@)),
                       !.peak = corm_arena_alloc(c.arena,
                                                 DropSqlSize(ms[i]))],
             "DROP", ms[i])
    ELSE SyncDropLoop(
             ExecDrop(
                 [c EXCEPT !.arena = corm_arena_end_temp(
                                         corm_arena_start_temp(@)),
                           !.peak = corm_arena_alloc(c.arena,
                                                     DropSqlSize(ms[i]))],
                 ms[i]),
             ms, execfail, i + 1)

\* The CREATE loop of CORM_SYNC_DROP.
RECURSIVE SyncCreateLoop(_, _, _, _)
SyncCreateLoop(c, ms, execfail, i) ==
    IF i > Len(ms) THEN c
    ELSE IF c.nexec + 1 = execfail
    THEN ExecRefused(
             [c EXCEPT !.arena = corm_arena_alloc(@, CreateSqlSize(ms[i]))],
             "CREATE", ms[i])
    ELSE SyncCreateLoop(
             ExecCreate(
                 [c EXCEPT !.arena = corm_arena_alloc(@,
                                                      CreateSqlSize(ms[i]))],
                 ms[i]),
             ms, execfail, i + 1)

SetForeignKeys(c, enabled) ==
    [c EXCEPT !.calls = Append(@, <<"set_foreign_keys", enabled>>)]

SyncDropMut(c, ms, execfail) ==
    Bind(SyncDropLoop(SetForeignKeys(c, "false"), ms, execfail, 1),
         LAMBDA d :
            IF ~d.ret THEN d
            ELSE SetForeignKeys(SyncCreateLoop(d, ms, execfail, 1), "true"))

\* case CORM_SYNC_DROP
SyncDrop(c, ms, execfail) ==
    Bind(SyncDropLoop(SetForeignKeys(c, "false"), ms, execfail, 1),
         LAMBDA d :
            IF ~d.ret THEN d
            ELSE SyncCreateLoop(SetForeignKeys(d, "true"), ms, execfail, 1))

\* The whole of corm_sync.  c is the backend and arena state at entry with
\* an empty trace and ret = TRUE.
SyncOutcome(c, ms, rels, mode, execfail) ==
    Bind(corm_resolve_relationships(ms, rels), LAMBDA r :
        IF ~r.ok THEN [out |-> [c EXCEPT !.ret = FALSE], related |-> r.related]
        ELSE [out |-> CASE mode = CORM_SYNC_SAFE ->
                              SyncSafeLoop(c, ms, execfail, 1)
                        [] mode = CORM_SYNC_DROP -> SyncDrop(c, ms, execfail)
                        [] OTHER -> [c EXCEPT !.ret = FALSE],
              related |-> r.related])

SyncStart ==
    [schema |-> schema, tables |-> tables, autoseq |-> autoseq,
     arena |-> arena, peak |-> arena, calls |-> <<>>, nexec |-> 0,
     ret |-> TRUE]

corm_sync(mode, execfail) ==
    \E o \in {SyncOutcome(SyncStart, models, related, mode, execfail)} :
       /\ o.out.arena <= ArenaSize
       /\ o.out.peak <= ArenaSize
       /\ related' = o.related
       /\ schema' = o.out.schema
       /\ tables' = o.out.tables
       /\ autoseq' = o.out.autoseq
       /\ arena' = o.out.arena
       /\ last' = [NoCall EXCEPT !.op = "sync", !.ret = o.out.ret,
                      !.arg = [mode |-> mode, execfail |-> execfail,
                               arena |-> arena],
                      !.calls = o.out.calls]
       /\ UNCHANGED <<handle, models, pkf, lastid, heap, result, session>>

(***************************************************************************)
(* The statement text.  A statement is the list of its tokens, a           *)
(* placeholder being one token; the binds are the (index, field) pairs     *)
(* handed to bind_param_by_type, in call order.                            *)
(***************************************************************************)
Backends == {"sqlite", "postgresql"}

\* The entries the operation table of a backend sets: sqlite_ops sets the
\* entries up to get_limit_syntax, postgres_ops also the last two of
\* corm_backend_ops_t.
BackendOps(backend) ==
    {"connect", "disconnect", "get_error", "execute", "prepare", "finalize",
     "reset", "bind_int", "bind_int64", "bind_double", "bind_string",
     "bind_blob", "bind_null", "step", "column_count", "column_name",
     "column_type", "column_int", "column_int64", "column_double",
     "column_text", "column_blob", "column_bytes", "last_insert_id",
     "begin_transaction", "commit", "rollback", "get_type_name",
     "get_auto_increment", "get_placeholder", "supports_returning",
     "get_limit_syntax"}
    \cup (IF backend = "postgresql"
          THEN {"table_exists", "set_foreign_keys"} ELSE {})

\* sqlite_get_placeholder returns "?", postgres_get_placeholder "$<index>".
get_placeholder(backend, index) ==
    IF backend = "sqlite" THEN "?" ELSE "$" \o ToString(index)

\* corm_str_cat over a list of pieces.
RECURSIVE StrCat(_, _)
StrCat(pieces, i) ==
    IF i > Len(pieces) THEN <<>> ELSE pieces[i] \o StrCat(pieces, i + 1)

\* The ", " the loops put before every piece but the first.
Separator(i) == IF i > 1 THEN <<",">> ELSE <<>>

\* corm_where_raw: "SELECT * FROM %s WHERE %s;" around the caller's
\* fragment, which is copied as it is.
WhereRawSql(backend, table, where_clause) ==
    <<"SELECT * FROM", table, "WHERE">> \o where_clause \o <<";">>

\* meta->primary_key_field of a field list registration accepted.
PkOf(fs) == fs[CHOOSE i \in 1..Len(fs) : PRIMARY_KEY \in fs[i].flags]

\* "UPDATE %s SET " then "%s=%s" per field of the SET list, with param_idx
\* counting them, then " WHERE %s=%s;" with the next index.
UpdateSql(backend, table, fs, pk) ==
    <<"UPDATE", table, "SET">>
    \o StrCat([i \in 1..Len(UpdateSetOf(fs)) |->
                 Separator(i) \o <<UpdateSetOf(fs)[i].name, "=",
                                   get_placeholder(backend, i)>>], 1)
    \o <<"WHERE", pk.name, "=",
         get_placeholder(backend, Len(UpdateSetOf(fs)) + 1), ";">>

\* "INSERT INTO %s (" names ") " "VALUES (" placeholders ");"
InsertSql(backend, table, fs) ==
    <<"INSERT INTO", table, "(">>
    \o StrCat([i \in 1..Len(InsertOf(fs)) |->
                 Separator(i) \o <<InsertOf(fs)[i].name>>], 1)
    \o <<")", "VALUES", "(">>
    \o StrCat([i \in 1..Len(InsertOf(fs)) |->
                 Separator(i) \o <<get_placeholder(backend, i)>>], 1)
    \o <<")", ";">>

\* The text corm_save prepares.
SaveText(backend, table, fs, pk, is_update) ==
    IF is_update THEN UpdateSql(backend, table, fs, pk)
    ELSE InsertSql(backend, table, fs)

\* The bind calls of corm_save: the bind loop with param_idx from 1, then
\* the primary key at the next index when updating.
SaveBinds(fs, pk, is_update) ==
    [i \in 1..Len(BoundOf(fs, is_update)) |->
        <<i, BoundOf(fs, is_update)[i].name>>]
    \o (IF is_update
        THEN << <<Len(BoundOf(fs, is_update)) + 1, pk.name>> >>
        ELSE <<>>)

\* sqlite_get_auto_increment, postgres_get_auto_increment.
get_auto_increment(backend) ==
    IF backend = "sqlite" THEN "AUTOINCREMENT" ELSE ""

\* sqlite_get_type_name, postgres_get_type_name.
get_type_name(backend, type) ==
    CASE type \in {FIELD_TYPE_INT, FIELD_TYPE_BOOL} -> "INTEGER"
      [] type = FIELD_TYPE_INT64 ->
            IF backend = "sqlite" THEN "INTEGER" ELSE "BIGINT"
      [] OTHER -> "TEXT"

\* The clauses in the order PRIMARY KEY, NOT NULL, UNIQUE, AUTOINCREMENT,
\* one per flag.
ColumnClausesMut(backend, f) ==
    (IF PRIMARY_KEY \in f.flags THEN <<"PRIMARY KEY">> ELSE <<>>)
    \o (IF NOT_NULL \in f.flags THEN <<"NOT NULL">> ELSE <<>>)
    \o (IF UNIQUE \in f.flags THEN <<"UNIQUE">> ELSE <<>>)
    \o (IF AUTO_INC \in f.flags THEN <<"AUTOINCREMENT">> ELSE <<>>)

\* The constraint clauses corm_generate_create_table_sql appends to one
\* column definition.
ColumnClauses(backend, f) ==
    (IF PRIMARY_KEY \in f.flags
     THEN <<"PRIMARY KEY">>
          \o (IF AUTO_INC \in f.flags /\ get_auto_increment(backend) # ""
              THEN <<get_auto_increment(backend)>> ELSE <<>>)
     ELSE <<>>)
    \o (IF NOT_NULL \in f.flags THEN <<"NOT NULL">> ELSE <<>>)
    \o (IF UNIQUE \in f.flags THEN <<"UNIQUE">> ELSE <<>>)

\* corm_generate_create_table_sql: the column definitions of the fields
\* that are no relationship, then one FOREIGN KEY clause per belongs-to
\* field (the descriptors of the model set no delete action).
CreateTableSql(backend, table, fs) ==
    Bind(SelectSeq(fs, LAMBDA f : ~IsRelation(f)), LAMBDA cols :
    Bind(SelectSeq(fs, LAMBDA f : f.type = FIELD_TYPE_BELONGS_TO),
         LAMBDA fks :
    <<"CREATE TABLE IF NOT EXISTS", table, "(">>
    \o StrCat([i \in 1..Len(cols) |->
                 Separator(i)
                 \o <<cols[i].name, get_type_name(backend, cols[i].type)>>
                 \o ColumnClauses(backend, cols[i])], 1)
    \o StrCat([i \in 1..Len(fks) |->
                 <<",", "FOREIGN KEY", fks[i].fk_column_name, "REFERENCES",
                   fks[i].target_model_name>>], 1)
    \o <<")", ";">>))

(***************************************************************************)
(* Prepared statements of the two backends.  A connection c carries the    *)
(* statements prepared on it, the parameter array the PostgreSQL backend   *)
(* keeps per process, the calls made so far and the backend errors that    *)
(* will happen: the prepare and bind calls that fail (by position), whether *)
(* executing fails, and the allocations of the engine that fail.           *)
(***************************************************************************)
NoFailure == [prepare |-> {}, bind |-> {}, step |-> FALSE, alloc |-> {}]

Connection(backend, fail) ==
    [backend |-> backend, fail |-> fail, prepares |-> 0, binds |-> 0,
     param_count |-> 0, stmts |-> <<>>, trace |-> <<>>, ok |-> TRUE,
     ret |-> 0]

Event(op, stmt, sql) == [op |-> op, stmt |-> stmt, sql |-> sql]

\* prepare: a statement that takes nparams parameters and selects rows rows.
\* A PostgreSQL statement starts unexecuted (current_row = -1) and holds its
\* name where its result will be.
backend_prepare(c, sql, nparams, rows) ==
    IF (c.prepares + 1) \in c.fail.prepare
    THEN [c EXCEPT !.prepares = @ + 1, !.ok = FALSE]
    ELSE [c EXCEPT !.prepares = @ + 1, !.ok = TRUE,
                   !.stmts = Append(@,
                       [sql |-> sql, nparams |-> nparams, rows |-> rows,
                        bound |-> 0, named |-> TRUE,
                        current_row |-> IF c.backend = "postgresql"
                                        THEN -1 ELSE 0,
                        row_count |-> 0]),
                   !.trace = Append(@, Event("prepare", Len(c.stmts) + 1,
                                             sql))]

backend_finalize(c, stmt) ==
    [c EXCEPT !.trace = Append(@, Event("finalize", stmt,
                                        c.stmts[stmt].sql))]

\* Binding parameter index: SQLite binds it to the statement, PostgreSQL
\* stores it in the array of the process.
BindParam(c, stmt, index) ==
    IF (c.binds + 1) \in c.fail.bind
    THEN [c EXCEPT !.binds = @ + 1, !.ok = FALSE]
    ELSE IF c.backend = "postgresql"
    THEN [c EXCEPT !.binds = @ + 1, !.ok = TRUE,
                   !.param_count = IF index > @ THEN index ELSE @]
    ELSE [c EXCEPT !.binds = @ + 1, !.ok = TRUE,
                   !.stmts[stmt].bound = IF index > @ THEN index ELSE @]

RECURSIVE BindAll(_, _, _, _)
BindAll(c, stmt, i, param_count) ==
    IF i > param_count THEN [c EXCEPT !.ok = TRUE]
    ELSE Bind(BindParam(c, stmt, i), LAMBDA b :
              IF ~b.ok THEN b ELSE BindAll(b, stmt, i + 1, param_count))

Stepped(c, stmt, ret) ==
    [c EXCEPT !.ret = ret,
              !.trace = Append(@, Event("step", stmt, c.stmts[stmt].sql))]

\* sqlite3_step walks the rows the statement selects with its bindings.
sqlite_step(c, stmt) ==
    Bind(c.stmts[stmt], LAMBDA s :
         IF c.fail.step THEN Stepped(c, stmt, -1)
         ELSE IF s.current_row < (IF s.bound >= s.nparams THEN s.rows ELSE 0)
         THEN Stepped([c EXCEPT !.stmts[stmt].current_row = @ + 1], stmt, 1)
         ELSE Stepped(c, stmt, 0))

\* sqlite3_reset rewinds the statement and keeps its bindings.
sqlite_reset(c, stmt) ==
    [c EXCEPT !.stmts[stmt].current_row = 0,
              !.trace = Append(@, Event("reset", stmt, c.stmts[stmt].sql))]

\* An unexecuted statement is executed under the name found where its result
\* will be, with the parameters of the process, which are cleared either
\* way; executing replaces the name by the result.
postgres_step(c, stmt) ==
    Bind(c.stmts[stmt], LAMBDA s :
         IF s.current_row = -1
            /\ (c.fail.step \/ ~s.named \/ c.param_count # s.nparams)
         THEN Stepped([c EXCEPT !.param_count = 0], stmt, -1)
         ELSE Bind(IF s.current_row = -1
                   THEN [c EXCEPT !.param_count = 0,
                                  !.stmts[stmt].named = FALSE,
                                  !.stmts[stmt].row_count = s.rows,
                                  !.stmts[stmt].current_row = 0]
                   ELSE c,
                   LAMBDA d :
                      IF d.stmts[stmt].current_row < d.stmts[stmt].row_count
                      THEN Stepped([d EXCEPT !.stmts[stmt].current_row
                                                = @ + 1], stmt, 1)
                      ELSE Stepped(d, stmt, 0)))

postgres_reset(c, stmt) ==
    [c EXCEPT !.stmts[stmt].current_row = -1,
              !.trace = Append(@, Event("reset", stmt, c.stmts[stmt].sql))]

backend_step(c, stmt) ==
    IF c.backend = "postgresql" THEN postgres_step(c, stmt)
    ELSE sqlite_step(c, stmt)

backend_reset(c, stmt) ==
    IF c.backend = "postgresql" THEN postgres_reset(c, stmt)
    ELSE sqlite_reset(c, stmt)

(***************************************************************************)
(* The backend calls of the public operations: what each one prepares,     *)
(* binds, steps, resets and finalizes on every path.  n is the number of   *)
(* rows its query selects.                                                 *)
(***************************************************************************)
Returned(c, ret, count, filled) ==
    [c |-> c, ret |-> ret, count |-> count, filled |-> filled]

\* while (step(stmt) == 1) count++;
RECURSIVE CountRows(_, _, _)
CountRows(c, stmt, count) ==
    Bind(backend_step(c, stmt), LAMBDA d :
         IF d.ret = 1 THEN CountRows(d, stmt, count + 1)
         ELSE [c |-> d, count |-> count])

\* while (step(stmt) == 1 && idx < count) { populate; idx++; }
RECURSIVE FillRows(_, _, _, _)
FillRows(c, stmt, idx, count) ==
    Bind(backend_step(c, stmt), LAMBDA d :
         IF d.ret = 1 /\ idx < count THEN FillRows(d, stmt, idx + 1, count)
         ELSE [c |-> d, filled |-> idx])

\* A pre-check that leaks its statement when the key cannot be bound.
RecordExistsStatementMut(c, n) ==
    Bind(backend_prepare(c, "SELECT COUNT", 1, 1), LAMBDA p :
    IF ~p.ok THEN Returned(p, FALSE, 0, 0)
    ELSE Bind(BindParam(p, Len(p.stmts), 1), LAMBDA b :
         IF ~b.ok THEN Returned(b, FALSE, 0, 0)
         ELSE Bind(backend_step(b, Len(p.stmts)), LAMBDA s :
                   Returned(backend_finalize(s, Len(p.stmts)),
                            s.ret = 1 /\ n > 0, 0, 0))))

RecordExistsStatement(c, n) ==
    Bind(backend_prepare(c, "SELECT COUNT", 1, 1), LAMBDA p :
    IF ~p.ok THEN Returned(p, FALSE, 0, 0)
    ELSE Bind(BindParam(p, Len(p.stmts), 1), LAMBDA b :
         IF ~b.ok THEN Returned(backend_finalize(b, Len(p.stmts)), FALSE,
                                0, 0)
         ELSE Bind(backend_step(b, Len(p.stmts)), LAMBDA s :
                   Returned(backend_finalize(s, Len(p.stmts)),
                            s.ret = 1 /\ n > 0, 0, 0))))

\* corm_save of an instance with a key and one more column.
SaveCalls(c, n) ==
    Bind(RecordExistsStatement(c, n), LAMBDA e :
    Bind(backend_prepare(e.c, IF e.ret THEN "UPDATE" ELSE "INSERT", 2, 0),
         LAMBDA p :
    IF ~p.ok THEN Returned(p, FALSE, 0, 0)
    ELSE Bind(BindAll(p, Len(p.stmts), 1, 2), LAMBDA b :
         IF ~b.ok THEN Returned(backend_finalize(b, Len(p.stmts)), FALSE,
                                0, 0)
         ELSE Bind(backend_step(b, Len(p.stmts)), LAMBDA s :
                   Returned(backend_finalize(s, Len(p.stmts)), s.ret >= 0,
                            0, 0)))))

FindCalls(c, n) ==
    Bind(backend_prepare(c, "SELECT", 1, IF n > 0 THEN 1 ELSE 0),
         LAMBDA p :
    IF ~p.ok THEN Returned(p, FALSE, 0, 0)
    ELSE Bind(BindParam(p, Len(p.stmts), 1), LAMBDA b :
         IF ~b.ok THEN Returned(backend_finalize(b, Len(p.stmts)), FALSE,
                                0, 0)
         ELSE Bind(backend_step(b, Len(p.stmts)), LAMBDA s :
              IF s.ret # 1 \/ "result" \in c.fail.alloc
                 \/ "instances" \in c.fail.alloc
              THEN Returned(backend_finalize(s, Len(p.stmts)), FALSE, 0, 0)
              ELSE Returned(backend_finalize(s, Len(p.stmts)), TRUE, 1,
                            1))))

FindAllCalls(c, n) ==
    Bind(backend_prepare(c, "SELECT COUNT", 0, 1), LAMBDA p :
    IF ~p.ok THEN Returned(p, FALSE, 0, 0)
    ELSE Bind(backend_step(p, Len(p.stmts)), LAMBDA s :
         Bind(backend_finalize(s, Len(p.stmts)), LAMBDA f :
         Bind(IF s.ret = 1 THEN n ELSE 0, LAMBDA record_count :
         IF record_count = 0 \/ "result" \in c.fail.alloc
            \/ "instances" \in c.fail.alloc
         THEN Returned(f, FALSE, 0, 0)
         ELSE Bind(backend_prepare(f, "SELECT", 0, n), LAMBDA q :
              IF ~q.ok THEN Returned(q, FALSE, 0, 0)
              ELSE Bind(FillRows(q, Len(q.stmts), 0, record_count),
                        LAMBDA r :
                        Returned(backend_finalize(r.c, Len(q.stmts)), TRUE,
                                 record_count, r.filled)))))))

WhereRawCalls(c, n, param_count) ==
    Bind(backend_prepare(c, "SELECT", param_count, n), LAMBDA p :
    IF ~p.ok THEN Returned(p, FALSE, 0, 0)
    ELSE Bind(BindAll(p, Len(p.stmts), 1, param_count), LAMBDA b :
         IF ~b.ok THEN Returned(backend_finalize(b, Len(p.stmts)), FALSE,
                                0, 0)
         ELSE Bind(CountRows(b, Len(p.stmts), 0), LAMBDA k :
              IF k.count = 0
              THEN Returned(backend_finalize(k.c, Len(p.stmts)), FALSE, 0,
                            0)
              ELSE Bind(backend_reset(k.c, Len(p.stmts)), LAMBDA z :
                   IF "result" \in c.fail.alloc
                      \/ "instances" \in c.fail.alloc
                   THEN Returned(backend_finalize(z, Len(p.stmts)), FALSE,
                                 0, 0)
                   ELSE Bind(FillRows(z, Len(p.stmts), 0, k.count),
                             LAMBDA r :
                             Returned(backend_finalize(r.c, Len(p.stmts)),
                                      TRUE, k.count, r.filled))))))

DeleteCalls(c, n) ==
    Bind(backend_prepare(c, "DELETE", 1, 0), LAMBDA p :
    IF ~p.ok THEN Returned(p, FALSE, 0, 0)
    ELSE Bind(BindParam(p, Len(p.stmts), 1), LAMBDA b :
         IF ~b.ok THEN Returned(backend_finalize(b, Len(p.stmts)), FALSE,
                                0, 0)
         ELSE Bind(backend_step(b, Len(p.stmts)), LAMBDA s :
                   Returned(backend_finalize(s, Len(p.stmts)), s.ret >= 0,
                            0, 0))))

HasManyCalls(c, n) ==
    Bind(backend_prepare(c, "SELECT", 1, n), LAMBDA p :
    IF ~p.ok THEN Returned(p, FALSE, 0, 0)
    ELSE Bind(BindParam(p, Len(p.stmts), 1), LAMBDA b :
         IF ~b.ok THEN Returned(backend_finalize(b, Len(p.stmts)), FALSE,
                                0, 0)
         ELSE Bind(CountRows(b, Len(p.stmts), 0), LAMBDA k :
              Bind(backend_reset(k.c, Len(p.stmts)), LAMBDA z :
              IF k.count > 0 /\ ("instances" \in c.fail.alloc
                                 \/ "track" \in c.fail.alloc)
              THEN Returned(backend_finalize(z, Len(p.stmts)), FALSE, 0, 0)
              ELSE Bind(FillRows(z, Len(p.stmts), 0, k.count), LAMBDA r :
                        Returned(backend_finalize(r.c, Len(p.stmts)), TRUE,
                                 k.count, r.filled))))))

OperationCalls(call, c, n) ==
    CASE call = "save" -> SaveCalls(c, n)
      [] call = "find" -> FindCalls(c, n)
      [] call = "find_all" -> FindAllCalls(c, n)
      [] call = "where_raw" -> WhereRawCalls(c, n, 1)
      [] call = "delete" -> DeleteCalls(c, n)
      [] call = "has_many" -> HasManyCalls(c, n)

\* The builders as steps on an input held in last.
BuildWhereRaw ==
    /\ last.op = "where_input"
    /\ last' = [op |-> "where_sql", arg |-> last.arg,
                sql |-> WhereRawSql(last.arg.backend, last.arg.table,
                                    last.arg.clause)]
    /\ UNCHANGED <<handle, models, pkf, related, tables, autoseq, lastid, heap,
                   result, session, schema, arena>>

BuildSave ==
    /\ last.op = "save_input"
    /\ last' = [op |-> "save_sql", arg |-> last.arg,
                sql |-> SaveText(last.arg.backend, last.arg.table,
                                 last.arg.fields, PkOf(last.arg.fields),
                                 last.arg.is_update),
                binds |-> SaveBinds(last.arg.fields, PkOf(last.arg.fields),
                                    last.arg.is_update)]
    /\ UNCHANGED <<handle, models, pkf, related, tables, autoseq, lastid, heap,
                   result, session, schema, arena>>

BuildCreateTable ==
    /\ last.op = "create_input"
    /\ last' = [op |-> "create_sql", arg |-> last.arg,
                sql |-> CreateTableSql(last.arg.backend, last.arg.table,
                                       last.arg.fields)]
    /\ UNCHANGED <<handle, models, pkf, related, tables, autoseq, lastid, heap,
                   result, session, schema, arena>>

\* A result container that tracks k blocks, on a heap of its own.
RECURSIVE ResultWith(_)
ResultWith(k) ==
    IF k = 0
    THEN corm_result_create([live |-> <<>>, bad |-> FALSE, n |-> 0], {},
                            "User")
    ELSE Bind(ResultWith(k - 1), LAMBDA r :
              Bind(corm_result_alloc(r.h, {}, r.res, "str", Str("a")),
                   LAMBDA a : [h |-> a.h, res |-> a.res]))

\* The field loop of the queries on one row of a result set whose columns
\* are last.arg.cols, into a zeroed instance.
MaterialiseRow ==
    /\ last.op = "row_input"
    /\ \E c \in {PopulateInstance(
                    [h |-> ResultWith(0).h, res |-> ResultWith(0).res,
                     inst |-> ZeroInstance(last.arg.model)],
                    {}, last.arg.model, last.arg.cols, last.arg.row, 1)} :
          last' = [op |-> "row_out", arg |-> last.arg, h |-> c.h,
                   res |-> c.res, inst |-> c.inst]
    /\ UNCHANGED <<handle, models, pkf, related, tables, autoseq, lastid, heap,
                   result, session, schema, arena>>

\* corm_result_alloc on a container that tracks last.arg.tracked blocks;
\* the allocations of the call that fail are last.arg.fails.
ResultAlloc ==
    /\ last.op = "alloc_input"
    /\ \E b \in {ResultWith(last.arg.tracked)} :
       \E a \in {corm_result_alloc([b.h EXCEPT !.n = 0], last.arg.fails,
                                   b.res, "str", Str("b"))} :
          last' = [op |-> "alloc_out", arg |-> last.arg, before |-> b,
                   after |-> a]
    /\ UNCHANGED <<handle, models, pkf, related, tables, autoseq, lastid, heap,
                   result, session, schema, arena>>

\* One public operation on a connection of last.arg.backend whose query
\* selects last.arg.rows rows, under the backend errors last.arg.fail.
RunOperation ==
    /\ last.op = "calls_input"
    /\ \E o \in {OperationCalls(last.arg.call,
                                 Connection(last.arg.backend, last.arg.fail),
                                 last.arg.rows)} :
          last' = [op |-> "calls_out", arg |-> last.arg, c |-> o.c,
                   ret |-> o.ret, count |-> o.count, filled |-> o.filled]
    /\ UNCHANGED <<handle, models, pkf, related, tables, autoseq, lastid, heap,
                   result, session, schema, arena>>

(***************************************************************************)
(* Specifications.                                                         *)
(***************************************************************************)
NoTables ==
    [tables |-> [t \in TableNames |-> <<>>],
     autoseq |-> [t \in TableNames |-> 0],
     lastid |-> 0]

\* The handle right after corm_init: nothing registered, nothing resolved.
InitRegistry ==
    /\ models = <<>>
    /\ pkf = [m \in ModelNames |-> 0]
    /\ related = [k \in RelKeys |-> "NULL"]
    /\ tables = NoTables.tables
    /\ autoseq = NoTables.autoseq
    /\ lastid = NoTables.lastid
    /\ heap = [live |-> <<>>, bad |-> FALSE]
    /\ result = NoResult
    /\ session = NoSession
    /\ schema = {}
    /\ arena = 0
    /\ handle = corm_init(DefaultAllocator)
    /\ last = NoCall

Register == \E m \in ModelNames : corm_register_model(m)

NextRegistry == Register

SpecRegistry == InitRegistry /\ [][NextRegistry]_vars

\* The life of a handle: built with any allocator, entities registered, the
\* allocator replaced any number of times, closed.
InitAllocator ==
    /\ models = <<>>
    /\ pkf = [m \in ModelNames |-> 0]
    /\ related = [k \in RelKeys |-> "NULL"]
    /\ tables = NoTables.tables
    /\ autoseq = NoTables.autoseq
    /\ lastid = NoTables.lastid
    /\ heap = [live |-> <<>>, bad |-> FALSE]
    /\ result = NoResult
    /\ session = NoSession
    /\ schema = {}
    /\ arena = 0
    /\ handle \in { corm_init(a) : a \in Allocators }
    /\ last = NoCall

RegisterOpen == handle.open /\ Register

SetAllocator == \E a \in Allocators : corm_set_allocator(a)

Close == corm_close

NextAllocator == RegisterOpen \/ SetAllocator \/ Close

SpecAllocator == InitAllocator /\ [][NextAllocator]_vars

\* Registration and schema synchronisation on a fresh handle.  Up to one
\* execute call of a run is refused by the backend.
ExecFailures == 0..2

Sync == \E mode \in SyncModes : \E execfail \in ExecFailures :
            corm_sync(mode, execfail)

NextSync == Register \/ Sync

SpecSync == InitRegistry /\ [][NextSync]_vars

\* The statement builders on every input within the bounds: WHERE fragments
\* of up to MaxTerms terms joined by AND, and field lists of up to MaxFields
\* fields with exactly one primary key, for both placeholder dialects.
WhereTerms ==
    { <<"age", ">=", "?">>, <<"name", "=", "?">>, <<"age", "=", "1">> }

RECURSIVE JoinTerms(_, _)
JoinTerms(terms, i) ==
    IF i > Len(terms) THEN <<>>
    ELSE (IF i > 1 THEN <<"AND">> ELSE <<>>) \o terms[i]
         \o JoinTerms(terms, i + 1)

WhereClauses ==
    UNION { { JoinTerms(ts, 1) : ts \in [1..n -> WhereTerms] } :
            n \in 1..MaxTerms }

FieldKinds == {"pk", "pk_auto", "col", "auto", "belongs_to", "has_many"}

FieldOfKind(kind, i) ==
    CASE kind = "pk" ->
           Field("f" \o ToString(i), FIELD_TYPE_INT, {PRIMARY_KEY}, "NULL")
      [] kind = "pk_auto" ->
           Field("f" \o ToString(i), FIELD_TYPE_INT, {PRIMARY_KEY, AUTO_INC},
                 "NULL")
      [] kind = "col" ->
           Field("f" \o ToString(i), FIELD_TYPE_INT, {}, "NULL")
      [] kind = "auto" ->
           Field("f" \o ToString(i), FIELD_TYPE_INT, {AUTO_INC}, "NULL")
      [] kind = "belongs_to" ->
           RelField("f" \o ToString(i), FIELD_TYPE_BELONGS_TO, "User",
                    "user_id", "NULL")
      [] kind = "has_many" ->
           RelField("f" \o ToString(i), FIELD_TYPE_HAS_MANY, "Post",
                    "user_id", "count")

FieldLists ==
    UNION { { [i \in 1..n |-> FieldOfKind(ks[i], i)] :
              ks \in { k \in [1..n -> FieldKinds] :
                         Cardinality({ i \in 1..n :
                                         k[i] \in {"pk", "pk_auto"} }) = 1 } } :
            n \in 1..MaxFields }

\* The field lists CREATE TABLE is generated for: up to MaxColumns fields,
\* each a column with any set of flags or a belongs-to field, exactly one of
\* them a primary key.
ColumnShapes ==
    SUBSET {PRIMARY_KEY, NOT_NULL, UNIQUE, AUTO_INC} \cup {{"BELONGS_TO"}}

ColumnLists ==
    UNION { { [i \in 1..n |->
                 IF ks[i] = {"BELONGS_TO"}
                 THEN RelField("r" \o ToString(i), FIELD_TYPE_BELONGS_TO,
                               "User", "f1", "NULL")
                 ELSE Field("f" \o ToString(i), FIELD_TYPE_INT, ks[i],
                            "NULL")] :
              ks \in { k \in [1..n -> ColumnShapes] :
                         Cardinality({ i \in 1..n :
                                         PRIMARY_KEY \in k[i] }) = 1 } } :
            n \in 1..MaxColumns }

\* Result sets of one row: the columns of User or Post in any order, any of
\* them left out, each value NULL or a value of the column's type.
RowInputs ==
    UNION { { [op |-> "row_input",
               arg |-> [model |-> m, cols |-> c,
                        row |-> [rowid |-> 1, cols |-> r]]] :
              c \in UNION { { q \in [1..n -> ColumnSet(m)] :
                                \A i, j \in 1..n : q[i] = q[j] => i = j } :
                            n \in 0..Len(Columns(m)) },
              r \in { v \in [ColumnSet(m) ->
                               {SqlNull, SqlInt(MaxId), SqlText("a")}] :
                        \A n \in ColumnSet(m) :
                           v[n] # SqlNull =>
                              (v[n][1] = "text")
                                 = (FieldNamed(m, n).type
                                       = FIELD_TYPE_STRING) } } :
            m \in {"User", "Post"} }

\* Containers that track 0..MaxTracked blocks, and the allocations of the
\* call that fail (1: the block, 2: the grown tracking array).
AllocInputs ==
    { [op |-> "alloc_input", arg |-> [tracked |-> k, fails |-> f]] :
      k \in 0..MaxTracked, f \in SUBSET {1, 2} }

\* The positions of the prepare and bind calls of one operation that may
\* fail, and the allocations of the engine that may.
PrepareCalls == {1, 2}

BindCalls == {1, 2, 3}

EngineAllocations == {"result", "instances", "track"}

FailureProfiles ==
    { [prepare |-> p, bind |-> b, step |-> s, alloc |-> a] :
      p \in SUBSET PrepareCalls, b \in SUBSET BindCalls, s \in BOOLEAN,
      a \in SUBSET EngineAllocations }

PublicOperations ==
    {"save", "find", "find_all", "where_raw", "delete", "has_many"}

CallInputs ==
    { [op |-> "calls_input",
       arg |-> [call |-> k, backend |-> b, rows |-> n, fail |-> f]] :
      k \in PublicOperations, b \in Backends, n \in 0..MaxRows,
      f \in FailureProfiles }

StatementInputs ==
    { [op |-> "where_input",
       arg |-> [backend |-> b, table |-> "User", clause |-> c]] :
      b \in Backends, c \in WhereClauses }
    \cup
    { [op |-> "save_input",
       arg |-> [backend |-> b, table |-> "T", fields |-> fs,
                is_update |-> u]] :
      b \in Backends, fs \in FieldLists, u \in BOOLEAN }
    \cup
    { [op |-> "create_input",
       arg |-> [backend |-> b, table |-> "T", fields |-> fs]] :
      b \in Backends, fs \in ColumnLists }
    \cup RowInputs \cup AllocInputs \cup CallInputs

InitStatements ==
    /\ models = <<>>
    /\ pkf = [m \in ModelNames |-> 0]
    /\ related = [k \in RelKeys |-> "NULL"]
    /\ tables = NoTables.tables
    /\ autoseq = NoTables.autoseq
    /\ lastid = NoTables.lastid
    /\ heap = [live |-> <<>>, bad |-> FALSE]
    /\ result = NoResult
    /\ session = NoSession
    /\ schema = {}
    /\ arena = 0
    /\ handle = corm_init(DefaultAllocator)
    /\ last \in StatementInputs

NextStatements ==
    \/ BuildWhereRaw \/ BuildSave \/ BuildCreateTable
    \/ MaterialiseRow \/ ResultAlloc \/ RunOperation

SpecStatements == InitStatements /\ [][NextStatements]_vars

\* The handle after User, Post and Tag were registered and the schema was
\* synced: primary keys and relationship targets resolved, tables empty.
Registered == <<"User", "Post", "Tag">>

Init ==
    /\ models = Registered
    /\ pkf = [m \in ModelNames |->
                 IF \E i \in 1..Len(Registered) : Registered[i] = m
                 THEN pk_field(m) ELSE 0]
    /\ related = [k \in RelKeys |-> Fields(k[1])[k[2]].target_model_name]
    /\ tables = NoTables.tables
    /\ autoseq = NoTables.autoseq
    /\ lastid = NoTables.lastid
    /\ heap = [live |-> <<>>, bad |-> FALSE]
    /\ result = NoResult
    /\ session = NoSession
    /\ schema = { Registered[i] : i \in 1..Len(Registered) }
    /\ arena = 0
    /\ handle = corm_init(DefaultAllocator)
    /\ last = NoCall

\* The instances the callers save and the keys they look up.
SaveInstances(m) ==
    CASE m = "User" ->
           [id : 0..MaxId, name : {Str(""), Str("a")}, age : {-1, 1},
            posts : {0}, posts_count : {0}]
      [] m = "Post" ->
           [id : 0..1, user_id : 0..MaxId, tag : {NULL},
            user : {0}, label : {0}]
      [] m = "Tag" -> [id : {Str("t"), NULL}]
      [] m = "NoPk" -> [x : {1}]
      [] OTHER -> {}

PkValues(m) ==
    CASE m \in {"User", "Post"} -> 1..MaxId
      [] m = "Tag" -> {Str("t"), NULL}
      [] OTHER -> {}

Save ==
    /\ result.blk = 0
    /\ \E m \in ModelNames : \E inst \in SaveInstances(m) : corm_save(m, inst)

Delete ==
    /\ result.blk = 0
    /\ \E m \in ModelNames : \E pk \in PkValues(m) : corm_delete(m, pk)

Find == \E m \in ModelNames : \E pk \in PkValues(m) : corm_find(m, pk, {})

Free == corm_free_result

Next == Save \/ Delete \/ Find \/ Free

Spec == Init /\ [][Next]_vars

(***************************************************************************)
(* Queries and relation loading over a populated store.                    *)
(***************************************************************************)
\* The saves that populate the store, in order.
SeedSaves ==
    << <<"Tag", [id |-> Str("t")]>>,
       <<"Tag", [id |-> Str("")]>>,
       <<"User", [id |-> 0, name |-> Str("a"), age |-> 1, posts |-> 0,
                  posts_count |-> 0]>>,
       <<"User", [id |-> 0, name |-> Str("b"), age |-> 2, posts |-> 0,
                  posts_count |-> 0]>>,
       <<"User", [id |-> 0, name |-> Str("c"), age |-> 3, posts |-> 0,
                  posts_count |-> 0]>>,
       <<"Post", [id |-> 0, user_id |-> 1, tag |-> Str("t"), user |-> 0,
                  label |-> 0]>>,
       <<"Post", [id |-> 0, user_id |-> 1, tag |-> Str(""), user |-> 0,
                  label |-> 0]>>,
       <<"Post", [id |-> 0, user_id |-> 1, tag |-> NULL, user |-> 0,
                  label |-> 0]>> >>

RECURSIVE Replay(_, _, _)
Replay(db, saves, i) ==
    IF i > Len(saves) THEN db
    ELSE Replay(SaveOutcome(db, pk_field(saves[i][1]), saves[i][1],
                            saves[i][2]).db,
                saves, i + 1)

Seeded == Replay(NoTables, SeedSaves, 1)

InitRelations ==
    /\ models = Registered
    /\ pkf = [m \in ModelNames |->
                 IF \E i \in 1..Len(Registered) : Registered[i] = m
                 THEN pk_field(m) ELSE 0]
    /\ related = [k \in RelKeys |-> Fields(k[1])[k[2]].target_model_name]
    /\ tables = Seeded.tables
    /\ autoseq = Seeded.autoseq
    /\ lastid = Seeded.lastid
    /\ heap = [live |-> <<>>, bad |-> FALSE]
    /\ result = NoResult
    /\ session = NoSession
    /\ schema = { Registered[i] : i \in 1..Len(Registered) }
    /\ arena = 0
    /\ handle = corm_init(DefaultAllocator)
    /\ last = NoCall

\* The allocation requests of one call that the allocator refuses.
FailSets == {{}, {1}, {2}, {3}, {4}, {5}}

QueryKeys(m) ==
    CASE m = "User" -> {1, 3}
      [] m = "Post" -> {1, 2, 3}
      [] m = "Tag" -> {Str("t"), Str("")}
      [] OTHER -> {}

WhereQueries(m) ==
    CASE m = "User" ->
           { [clause |-> <<"age", ">=", "?">>, values |-> <<2>>,
              types |-> <<FIELD_TYPE_INT>>],
             [clause |-> <<"age", ">=", "?", "AND", "name", "=", "?">>,
              values |-> <<1, Str("a")>>,
              types |-> <<FIELD_TYPE_INT, FIELD_TYPE_STRING>>] }
      [] m = "Post" ->
           { [clause |-> <<"user_id", "=", "?">>, values |-> <<1>>,
              types |-> <<FIELD_TYPE_INT>>],
             [clause |-> <<"tag", "=", "?">>, values |-> <<Str("")>>,
              types |-> <<FIELD_TYPE_STRING>>],
             [clause |-> <<"user_id", "=", "?">>, values |-> <<2>>,
              types |-> <<FIELD_TYPE_INT>>] }
      [] OTHER -> {}

\* The field names the callers ask corm_load_relation for.
LoadNames == {"user", "label", "posts", "id", "missing"}

\* A caller that has lost a block to a failed call makes no further
\* queries.
NothingLeaked == DOMAIN heap.live = {}

FindKey ==
    /\ NothingLeaked
    /\ \E m \in ModelNames : \E pk \in QueryKeys(m) : \E fails \in FailSets :
        corm_find(m, pk, fails)

FindAll ==
    /\ NothingLeaked
    /\ \E m \in {"User", "Post"} : \E fails \in FailSets :
        corm_find_all(m, fails)

WhereRaw ==
    /\ NothingLeaked
    /\ \E m \in ModelNames : \E q \in WhereQueries(m) : \E fails \in FailSets :
        corm_where_raw(m, q.clause, q.values, q.types, fails)

Load ==
    \E idx \in 1..3 : \E n \in LoadNames : \E fails \in FailSets :
        LoadRelation(idx, n, fails)

NextRelations == FindKey \/ FindAll \/ WhereRaw \/ Load \/ Free

SpecRelations == InitRelations /\ [][NextRelations]_vars

(***************************************************************************)
(* Properties.                                                             *)
(***************************************************************************)
\* The number of PRIMARY_KEY fields an entity declares.
DeclaredKeys(m) ==
    Cardinality({ i \in 1..Len(FieldTable[m]) :
                     PRIMARY_KEY \in FieldTable[m][i].flags })

\* C1 (as amended): while the registry has room, corm_register_model
\* returns false exactly for the entities with zero or at least two
\* PRIMARY_KEY fields, and an entity with exactly one is appended to the
\* registry; with a full registry it returns false for every entity; a
\* call that returns false leaves the registry as it was.
C1_RegisterOnePkAndRoom ==
    [][last'.op = "register" =>
          LET m == last'.model
              room == Len(models) < MaxModels
          IN  /\ last'.ret <=> (DeclaredKeys(m) = 1 /\ room)
              /\ last'.ret => models' = Append(models, m)
              /\ ~last'.ret => models' = models]_vars

\* C1 witness: an entity with one primary key was turned away by a full
\* registry, after MaxModels entities had been appended.
C1_Witness ==
    /\ last.op = "register"
    /\ ~last.ret
    /\ DeclaredKeys(last.model) = 1
    /\ Len(models) = MaxModels

\* C1 as stated: false if and only if the entity has zero or at least two
\* PRIMARY_KEY fields, and every entity with exactly one is appended.
C1_AsStated ==
    [][last'.op = "register" =>
          LET m == last'.model
          IN  /\ ~last'.ret <=> (DeclaredKeys(m) = 0 \/ DeclaredKeys(m) >= 2)
              /\ DeclaredKeys(m) = 1 =>
                    last'.ret /\ models' = Append(models, m)]_vars

\* The validated fields of m up to and including the first one whose
\* validator rejects the value held by inst.
ExpectedValidators(m, inst) ==
    LET fs == FieldTable[m]
        rejecting == { i \in 1..Len(fs) :
                          /\ fs[i].validator # "NULL"
                          /\ ~Validate(fs[i].validator, inst[fs[i].name]) }
        first == CHOOSE i \in rejecting : \A j \in rejecting : i <= j
        run == SelectSeq([i \in 1..first |-> fs[i]],
                         LAMBDA f : f.validator # "NULL")
    IN  [i \in 1..Len(run) |-> run[i].name]

Rejected(m, inst) ==
    \E i \in 1..Len(FieldTable[m]) :
        /\ FieldTable[m][i].validator # "NULL"
        /\ ~Validate(FieldTable[m][i].validator,
                     inst[FieldTable[m][i].name])

\* C2: when a validator rejects a field of the instance, corm_save returns
\* false, makes no backend call, leaves the stored rows (and the rowid
\* counters) unchanged, and has run the validators in declaration order up
\* to the first rejecting one and none after it.
C2_ValidatorsFirst ==
    [][(last'.op = "save" /\ Rejected(last'.model, last'.arg)) =>
          /\ ~last'.ret
          /\ last'.calls = <<>>
          /\ tables' = tables /\ autoseq' = autoseq /\ lastid' = lastid
          /\ last'.vlog = ExpectedValidators(last'.model, last'.arg)]_vars

\* C2 witness: a save of a User whose name and age are both rejected ran
\* the name validator only, with rows already stored.
C2_Witness ==
    /\ last.op = "save"
    /\ last.model = "User"
    /\ last.arg.name = Str("")
    /\ last.arg.age = -1
    /\ ~last.ret
    /\ last.vlog = <<"name">>
    /\ tables["User"] # <<>>

\* The declared primary key of an entity with exactly one.
DeclaredKey(m) ==
    FieldTable[m][CHOOSE i \in 1..Len(FieldTable[m]) :
                     PRIMARY_KEY \in FieldTable[m][i].flags]

\* The value of field f of the instance held in slot idx of block blk,
\* with a char* member replaced by the text it points at.
Member(h, blk, idx, f) == Deref(h, f.type, h.live[blk].val[idx][f.name])

\* C3: after a save that inserted a row, corm_find with the instance's
\* primary key returns a result of one instance whose non-relationship
\* fields equal the saved instance's, and an auto-increment key is nonzero
\* and equal to the backend's last insert id.
C3_RoundTrip ==
    [][(/\ last.op = "save" /\ last.ret
        /\ ~last.existed
        /\ last'.op = "find"
        /\ last'.model = last.model
        /\ last'.arg.pk = last.inst[DeclaredKey(last.model).name])
       =>
       /\ result'.blk # 0
       /\ result'.count = 1
       /\ \A i \in 1..Len(FieldTable[last.model]) :
             LET f == FieldTable[last.model][i] IN
             ~IsRelation(f) =>
                Member(heap', result'.data, 1, f) = last.inst[f.name]
       /\ AUTO_INC \in DeclaredKey(last.model).flags =>
             /\ last.inst[DeclaredKey(last.model).name] # 0
             /\ last.inst[DeclaredKey(last.model).name] = lastid]_vars

\* C3 failing case: a Tag row with a NULL primary key is stored (the save
\* of it returned true) and corm_find with that key returned null.
C3_Witness ==
    /\ last.op = "find"
    /\ last.model = "Tag"
    /\ last.arg.pk = NULL
    /\ ~last.ret
    /\ \E i \in 1..Len(tables["Tag"]) : tables["Tag"][i].cols["id"] = SqlNull

\* C4: a save that returns true after inserting a row of an entity with an
\* AUTO_INC primary key leaves the backend's last insert id in the primary
\* key of the caller's instance and changes no other member; every other
\* save (an UPDATE, a failed save, an insert without AUTO_INC) leaves the
\* instance as the caller passed it.
C4_WriteBackOnly ==
    [][last'.op = "save" =>
          LET m == last'.model
              inserted == /\ m \in DOMAIN tables
                          /\ Len(tables'[m]) > Len(tables[m])
          IN  IF /\ last'.ret /\ inserted
                 /\ AUTO_INC \in DeclaredKey(m).flags
              THEN last'.inst =
                      [last'.arg EXCEPT ![DeclaredKey(m).name] = lastid']
              ELSE last'.inst = last'.arg]_vars

\* C4 witness: an insert of a User passed with id 2 came back with the
\* new rowid 1 in id.
C4_Witness ==
    /\ last.op = "save"
    /\ last.model = "User"
    /\ last.ret
    /\ ~last.existed
    /\ last.arg.id = 2
    /\ last.inst.id = 1
    /\ lastid = 1

\* The primary key value of inst is stored in the table of m.
KeyStored(m, inst) ==
    /\ m \in DOMAIN tables
    /\ \E i \in 1..Len(tables[m]) :
          Matches(tables[m][i], DeclaredKey(m).name,
                  bind_param_by_type(DeclaredKey(m).type,
                                     inst[DeclaredKey(m).name]))

\* C5: an instance that was saved successfully and whose primary key is
\* stored is saved again with identical values: the call returns true and
\* the table holds the same rows with the same values as before it.
C5_UpdateIdempotent ==
    [][(/\ last.op = "save" /\ last.ret
        /\ KeyStored(last.model, last.inst)
        /\ last'.op = "save"
        /\ last'.model = last.model
        /\ last'.arg = last.inst)
       => (last'.ret /\ tables' = tables)]_vars

\* C5 failing case: the save of a stored Tag row with unchanged values
\* returned false after prepare, the only backend call of the UPDATE.
C5_Witness ==
    /\ last.op = "save"
    /\ last.model = "Tag"
    /\ last.existed
    /\ ~last.ret
    /\ last.calls = RecordExistsCalls \o <<"prepare">>
    /\ KeyStored("Tag", last.arg)

\* C6 (as amended): after corm_delete(pk) returned true, a corm_find(pk)
\* made before any further save returns null.
C6_DeletedIsGone ==
    [][(/\ last.op = "delete" /\ last.ret
        /\ last'.op = "find"
        /\ last'.model = last.model
        /\ last'.arg.pk = last.arg.pk)
       => (~last'.ret /\ result'.blk = 0)]_vars

\* C6 witness: corm_find returned null for a User key that AUTOINCREMENT
\* had handed out (such a key is never handed out again, so the row was
\* deleted and not saved since).
C6_Witness ==
    /\ last.op = "find"
    /\ last.model = "User"
    /\ ~last.ret
    /\ last.arg.pk <= autoseq["User"]

\* C6 as stated: after corm_delete(pk) returns (true or false), a
\* corm_find(pk) made before any further save returns null.
C6_AsStated ==
    [][(/\ last.op = "delete"
        /\ last'.op = "find"
        /\ last'.model = last.model
        /\ last'.arg.pk = last.arg.pk)
       => (~last'.ret /\ result'.blk = 0)]_vars

\* C7: corm_delete returns true exactly when a row was removed; a primary
\* key that matches no row gives false.
C7_DeleteReportsNotFound ==
    [][last'.op = "delete" =>
          (last'.ret <=>
              /\ last'.model \in DOMAIN tables
              /\ Len(tables'[last'.model]) < Len(tables[last'.model]))]_vars

\* C7 failing case: corm_delete returned true although its statement
\* ran without error and removed no row.
C7_Witness ==
    /\ last.op = "delete"
    /\ last.ret
    /\ ~last.existed
    /\ last.inst.rc = 0

\* The blocks the result res owns: container, tracking array, instance
\* buffer and every tracked block.
Owned(res) ==
    {res.blk, res.track, res.data}
        \cup { res.allocations[i] : i \in 1..Len(res.allocations) }

C9_NestedOwnedOnce ==
    /\ (result.blk # 0 /\ session.loads > 0 /\ session.failed = 0) =>
          /\ DOMAIN heap.live \ session.base = Owned(result)
          /\ \A i, j \in 1..Len(result.allocations) :
                result.allocations[i] = result.allocations[j] => i = j
          /\ \A i \in 1..Len(result.allocations) :
                result.allocations[i]
                   \notin {result.blk, result.track, result.data}
    /\ (last.op = "free_result" /\ last.arg.loads > 0
           /\ last.arg.failed = 0)
          => (DOMAIN heap.live = last.arg.base /\ ~heap.bad)

\* C9 witness: a result was freed after two successful loads that had
\* merged nested blocks into its tracking list.
C9_Witness ==
    /\ last.op = "free_result"
    /\ last.arg.loads = 2 /\ last.arg.failed = 0
    /\ Len(last.inst.allocations) > 3
    /\ heap.live = <<>>

\* The foreign key member the belongs-to field n of m reads.
KeyOf(m, n) == FieldNamed(m, FieldNamed(m, n).fk_column_name)

\* The member v of type type holds the type's zero value: 0, a null
\* pointer or a pointer to the empty string.
ZeroValue(type, v) ==
    IF type = FIELD_TYPE_STRING
    THEN v = 0 \/ heap.live[v].val = Str("")
    ELSE v = 0

\* C10: corm_load_relation on a belongs-to field whose foreign key member
\* holds its type's zero value makes no backend call, sets the relation
\* pointer to null and returns true.
C10_ZeroKeyNoFetch ==
    (/\ last.op = "load_relation"
     /\ HasField(last.model, last.arg.field)
     /\ FieldNamed(last.model, last.arg.field).type = FIELD_TYPE_BELONGS_TO
     /\ ZeroValue(KeyOf(last.model, last.arg.field).type,
                  last.arg.before[KeyOf(last.model, last.arg.field).name]))
    => (/\ last.ret
        /\ last.calls = <<>>
        /\ last.inst[last.arg.field] = 0)

\* C10 failing case: the label of a Post whose tag is the empty string was
\* loaded with backend calls and came back non-null.
C10_Witness ==
    /\ last.op = "load_relation"
    /\ last.model = "Post"
    /\ last.arg.field = "label"
    /\ last.arg.before.tag # 0
    /\ heap.live[last.arg.before.tag].val = Str("")
    /\ last.ret
    /\ last.calls # <<>>
    /\ last.inst.label # 0

\* The last call was corm_load_relation on a belongs-to or has-many field.
LoadedRelation ==
    /\ last.op = "load_relation"
    /\ \E i \in 1..Len(FieldTable[last.model]) :
          /\ FieldTable[last.model][i].name = last.arg.field
          /\ IsRelation(FieldTable[last.model][i])

\* C11: when corm_load_relation on a relationship field returns false, the
\* relation pointer of the instance is null, whatever it held before.
C11_FailedLoadNullsPointer ==
    (LoadedRelation /\ ~last.ret) => last.inst[last.arg.field] = 0

\* C11 failing case: the user of a Post had been loaded, a second load of
\* it failed, and the pointer still holds the block of the first load.
C11_Witness ==
    /\ LoadedRelation /\ ~last.ret
    /\ last.model = "Post"
    /\ last.arg.field = "user"
    /\ last.arg.before.user # 0
    /\ last.inst.user = last.arg.before.user

\* C17: a corm_load_relation call that returns false leaves no block that
\* it allocated live and untracked: every live block that the caller's
\* result does not own was live before the call.
C17_FailedMergeNoOrphan ==
    [][(last'.op = "load_relation" /\ ~last'.ret) =>
          (DOMAIN heap'.live \ Owned(result')) \subseteq DOMAIN heap.live]_vars

\* C17 failing case: the growth of the caller's tracking list was refused
\* while the strings of a fetched User were being merged, the call
\* returned false, and a string block is live that nobody tracks.
C17_Witness ==
    /\ LoadedRelation /\ ~last.ret
    /\ last.arg.field = "user"
    /\ last.calls # <<>>
    /\ \E b \in DOMAIN heap.live :
          /\ b \notin Owned(result)
          /\ b \notin session.base
          /\ heap.live[b].kind = "str"
    /\ result.data \in DOMAIN heap.live

\* C18: the registry never holds more than MaxModels entities, and a
\* registration attempted with a full registry returns false and leaves
\* the registry's contents and count as they were.
C18_RegistryWithinCapacity ==
    [][/\ Len(models') <= MaxModels
       /\ (last'.op = "register" /\ Len(models) = MaxModels) =>
             (~last'.ret /\ models' = models)]_vars

\* C18 witness: Tag, whose declaration is acceptable, was turned away by a
\* registry that holds MaxModels entities, none of them Tag.
C18_Witness ==
    /\ last.op = "register" /\ last.model = "Tag" /\ ~last.ret
    /\ Len(models) = MaxModels
    /\ \A i \in 1..Len(models) : models[i] # "Tag"

\* The rows of the target of has-many field f whose foreign-key column
\* equals the primary key of the parent instance.
ChildRows(m, f, parent) ==
    SelectSeq(tables[f.target_model_name],
              LAMBDA r : r.cols[f.fk_column_name]
                            = SqlInt(parent[DeclaredKey(m).name]))

\* C19: a successful load of a has-many field stores the number of rows of
\* the target whose foreign key equals the parent's primary key in the
\* count member, and in the field a pointer to an array of that many
\* instances holding those rows in order, or null when there are none.
C19_HasManyPointerAndCount ==
    (/\ LoadedRelation /\ last.ret
     /\ FieldNamed(last.model, last.arg.field).type = FIELD_TYPE_HAS_MANY)
    => LET f == FieldNamed(last.model, last.arg.field)
           rows == ChildRows(last.model, f, last.arg.before)
           ptr == last.inst[f.name]
       IN  /\ last.inst[f.count_field] = Len(rows)
           /\ Len(rows) = 0 => ptr = 0
           /\ Len(rows) > 0 =>
                 /\ ptr \in DOMAIN heap.live
                 /\ Len(heap.live[ptr].val) = Len(rows)
                 /\ \A i \in 1..Len(rows) :
                       SqlInt(heap.live[ptr].val[i].id) = rows[i].cols["id"]

\* C19 witness: the posts of User 1 were loaded: three instances, count 3.
C19_Witness ==
    /\ LoadedRelation /\ last.ret
    /\ last.arg.field = "posts"
    /\ last.arg.before.id = 1
    /\ last.inst.posts_count = 3
    /\ last.inst.posts # 0
    /\ Len(heap.live[last.inst.posts].val) = 3

\* Some relationship field of a registered entity names a target that is
\* no registered entity's table name.
Unresolved ==
    \E i \in 1..Len(models) : \E j \in 1..Len(FieldTable[models[i]]) :
        /\ IsRelation(FieldTable[models[i]][j])
        /\ \A k \in 1..Len(models) :
              models[k] # FieldTable[models[i]][j].target_model_name

\* The statements of a trace: its calls other than table_exists.
Statements(calls) == SelectSeq(calls, LAMBDA c : c[1] # "table_exists")

\* One statement of the given kind per entity of ms, in order.
OnePer(kind, ms) == [i \in 1..Len(ms) |-> <<kind, ms[i]>>]

\* The registered entities without a table, each once, in registry order.
Missing ==
    LET idx == SelectSeq([i \in 1..Len(models) |-> i],
                         LAMBDA i : /\ models[i] \notin schema
                                    /\ \A k \in 1..(i - 1) :
                                          models[k] # models[i])
    IN  [n \in 1..Len(idx) |-> models[idx[n]]]

IsPrefix(a, b) == Len(a) <= Len(b) /\ a = SubSeq(b, 1, Len(a))

C13_DropOrder ==
    [][(/\ last'.op = "sync" /\ last'.arg.mode = CORM_SYNC_DROP
        /\ last'.ret)
       => last'.calls = << <<"set_foreign_keys", "false">> >>
                           \o OnePer("DROP", models)
                           \o << <<"set_foreign_keys", "true">> >>
                           \o OnePer("CREATE", models)]_vars

\* C13 witness: a Drop run over two or more registered entities, some of
\* whose tables existed, returned true.
C13_Witness ==
    /\ last.op = "sync" /\ last.arg.mode = CORM_SYNC_DROP /\ last.ret
    /\ Len(models) >= 2
    /\ Len(last.calls) = 2 * Len(models) + 2
    /\ last.arg.arena > 0

\* C14: with an unresolved relationship target corm_sync returns false in
\* every mode without a backend call: no existence check, no foreign-key
\* switch, no DROP, no CREATE, and the backend's tables stay as they were.
C14_UnresolvedBeforeBackend ==
    [][(last'.op = "sync" /\ Unresolved)
       => /\ ~last'.ret
          /\ last'.calls = <<>>
          /\ schema' = schema /\ tables' = tables
          /\ autoseq' = autoseq]_vars

\* C14 witness: User is registered without Post; a Drop run returned
\* false with an empty trace and left the existing table of Tag alone.
C14_Witness ==
    /\ last.op = "sync" /\ last.arg.mode = CORM_SYNC_DROP
    /\ ~last.ret /\ last.calls = <<>>
    /\ Unresolved
    /\ "Tag" \in schema
    /\ \E i \in 1..Len(models) : models[i] = "User"

\* The public operations that build SQL text in the arena.
SqlOperations ==
    {"sync", "save", "find", "find_all", "where_raw", "delete",
     "load_relation"}

\* C16: every SQL-building operation returns with the arena's used offset
\* equal to the offset at its entry.
C16_ArenaRestored ==
    [][last'.op \in SqlOperations => arena' = arena]_vars

\* C16 failing case: a Safe run that created a table returned true with
\* the arena's used offset above the offset at entry.
C16_Witness ==
    /\ last.op = "sync" /\ last.arg.mode = CORM_SYNC_SAFE /\ last.ret
    /\ \E i \in 1..Len(last.calls) : last.calls[i][1] = "CREATE"
    /\ arena > last.arg.arena

\* The positions of a statement that hold a placeholder of the dialect.
PlaceholderPositions(backend, sql) ==
    SelectSeq([i \in 1..Len(sql) |-> i], LAMBDA i :
        \E n \in 1..Len(sql) : sql[i] = get_placeholder(backend, n))

\* The number of "?" markers of a WHERE fragment.
MarkerCount(clause) ==
    Cardinality({ i \in 1..Len(clause) : clause[i] = "?" })

\* C15: for a WHERE fragment with k "?" markers, the SQL text handed to the
\* backend holds exactly k placeholders of the backend's own syntax,
\* get_placeholder(1) .. get_placeholder(k) from left to right, for the "?"
\* dialect and for the numbered "$n" dialect.
C15_PlaceholdersRewritten ==
    last.op = "where_sql" =>
        LET b == last.arg.backend
            pos == PlaceholderPositions(b, last.sql)
        IN  /\ Len(pos) = MarkerCount(last.arg.clause)
            /\ \A i \in 1..Len(pos) :
                  last.sql[pos[i]] = get_placeholder(b, i)

\* A fragment with two markers was lowered for the numbered dialect.
C15_Witness ==
    /\ last.op = "where_sql"
    /\ last.arg.backend = "postgresql"
    /\ last.arg.clause = <<"age", ">=", "?", "AND", "name", "=", "?">>
    /\ last.sql[1] = "SELECT * FROM"

\* The columns a statement of corm_save names for its placeholders, in
\* placeholder order: the left sides of the "=" of an UPDATE, the
\* parenthesised column list of an INSERT.
PlaceholderColumns(backend, sql) ==
    IF sql[1] = "UPDATE"
    THEN [i \in 1..Len(PlaceholderPositions(backend, sql)) |->
             sql[PlaceholderPositions(backend, sql)[i] - 2]]
    ELSE SelectSeq(
             SubSeq(sql, 4, (CHOOSE j \in 1..Len(sql) : sql[j] = ")") - 1),
             LAMBDA t : t # ",")

\* The names of the relationship fields and AUTO_INC fields of a list.
ExcludedNames(fs) ==
    { fs[i].name : i \in { j \in 1..Len(fs) :
                             IsRelation(fs[j]) \/ AUTO_INC \in fs[j].flags } }

\* C20: the statement corm_save builds and the parameters it binds agree,
\* for every field list.  No relationship field and no AUTO_INC field is
\* among the columns of the INSERT list or the SET list, nor among the values
\* bound for them; in an UPDATE the primary key is not in the SET list and
\* is bound last, to the placeholder of the WHERE clause; the statement has
\* as many placeholders as there are bind calls, the i-th placeholder is
\* get_placeholder(i), the i-th bind has index i and binds the field whose
\* column the i-th placeholder stands for.
C20_StatementAndBindsAgree ==
    last.op = "save_sql" =>
        LET b == last.arg.backend
            fs == last.arg.fields
            upd == last.arg.is_update
            sql == last.sql
            binds == last.binds
            pos == PlaceholderPositions(b, sql)
            cols == PlaceholderColumns(b, sql)
            n == Len(binds)
            listed == IF upd THEN n - 1 ELSE n
        IN  /\ Len(pos) = n
            /\ Len(cols) = n
            /\ \A i \in 1..n :
                  /\ sql[pos[i]] = get_placeholder(b, i)
                  /\ binds[i] = <<i, cols[i]>>
            /\ \A i \in 1..listed : cols[i] \notin ExcludedNames(fs)
            /\ upd =>
                  /\ n >= 1
                  /\ \A i \in 1..listed : cols[i] # PkOf(fs).name
                  /\ binds[n][2] = PkOf(fs).name
                  /\ SubSeq(sql, pos[n] - 3, pos[n] + 1)
                        = <<"WHERE", PkOf(fs).name, "=",
                            get_placeholder(b, n), ";">>

\* An UPDATE for the numbered dialect of a list with a plain column, a
\* relationship field and an AUTO_INC primary key: one column is set, and
\* the key is bound second.
C20_Witness ==
    /\ last.op = "save_sql"
    /\ last.arg.backend = "postgresql"
    /\ last.arg.is_update
    /\ Len(last.arg.fields) = 3
    /\ last.arg.fields[1].flags = {}
    /\ ~IsRelation(last.arg.fields[1])
    /\ IsRelation(last.arg.fields[2])
    /\ last.arg.fields[3].flags = {PRIMARY_KEY, AUTO_INC}
    /\ last.sql = <<"UPDATE", "T", "SET", "f1", "=", "$1",
                    "WHERE", "f3", "=", "$2", ";">>
    /\ last.binds = << <<1, "f1">>, <<2, "f3">> >>

\* The pieces of a token list between the separators sep.
RECURSIVE SplitAt(_, _)
SplitAt(seq, sep) ==
    IF \A i \in 1..Len(seq) : seq[i] # sep THEN <<seq>>
    ELSE Bind(CHOOSE i \in 1..Len(seq) :
                 seq[i] = sep /\ \A j \in 1..(i - 1) : seq[j] # sep,
              LAMBDA i : <<SubSeq(seq, 1, i - 1)>>
                         \o SplitAt(SubSeq(seq, i + 1, Len(seq)), sep))

\* The column definitions of a CREATE TABLE statement, in text order.
ColumnDefinitions(sql) ==
    SelectSeq(SplitAt(SubSeq(sql, 4, Len(sql) - 2), ","),
              LAMBDA d : d # <<>> /\ d[1] # "FOREIGN KEY")

\* Whether the definitions of the statement in last are those of the
\* columns of its field list, the clauses of each being Clauses(field).
DefinitionsAre(Clauses(_)) ==
    Bind(SelectSeq(last.arg.fields, LAMBDA f : ~IsRelation(f)),
         LAMBDA cols :
         Bind(ColumnDefinitions(last.sql), LAMBDA defs :
              /\ Len(defs) = Len(cols)
              /\ \A i \in 1..Len(cols) :
                    /\ Len(defs[i]) >= 2
                    /\ defs[i][1] = cols[i].name
                    /\ SubSeq(defs[i], 3, Len(defs[i])) = Clauses(cols[i])))

\* The clause a flag stands for, when the condition holds.
Clause(present, text) == IF present THEN <<text>> ELSE <<>>

\* C21 as stated: in every generated column definition the clauses are
\* PRIMARY KEY, NOT NULL, UNIQUE, auto-increment keyword in that order, each
\* present exactly when the field carries the flag (the keyword when the
\* backend's keyword is non-empty).
C21_AsStated ==
    last.op = "create_sql" =>
        DefinitionsAre(LAMBDA f :
            Clause(PRIMARY_KEY \in f.flags, "PRIMARY KEY")
            \o Clause(NOT_NULL \in f.flags, "NOT NULL")
            \o Clause(UNIQUE \in f.flags, "UNIQUE")
            \o Clause(AUTO_INC \in f.flags
                        /\ get_auto_increment(last.arg.backend) # "",
                      get_auto_increment(last.arg.backend)))

\* C21 amended: the clauses are PRIMARY KEY, auto-increment keyword,
\* NOT NULL, UNIQUE in that order; PRIMARY KEY, NOT NULL and UNIQUE are
\* present exactly when the field carries the flag, the keyword exactly when
\* the field carries both PRIMARY_KEY and AUTO_INC and the backend's keyword
\* is non-empty.
C21_ClauseOrder ==
    last.op = "create_sql" =>
        DefinitionsAre(LAMBDA f :
            Clause(PRIMARY_KEY \in f.flags, "PRIMARY KEY")
            \o Clause(PRIMARY_KEY \in f.flags /\ AUTO_INC \in f.flags
                        /\ get_auto_increment(last.arg.backend) # "",
                      get_auto_increment(last.arg.backend))
            \o Clause(NOT_NULL \in f.flags, "NOT NULL")
            \o Clause(UNIQUE \in f.flags, "UNIQUE"))

\* A statement for the SQLite dialect whose first column carries all four
\* flags and whose second column carries AUTO_INC without PRIMARY_KEY.
C21_Witness ==
    /\ last.op = "create_sql"
    /\ last.arg.backend = "sqlite"
    /\ Len(last.arg.fields) = 2
    /\ last.arg.fields[1].flags = {PRIMARY_KEY, NOT_NULL, UNIQUE, AUTO_INC}
    /\ last.arg.fields[2].flags = {AUTO_INC, UNIQUE}
    /\ last.sql = <<"CREATE TABLE IF NOT EXISTS", "T", "(",
                    "f1", "INTEGER", "PRIMARY KEY", "AUTOINCREMENT",
                    "NOT NULL", "UNIQUE", ",",
                    "f2", "INTEGER", "UNIQUE", ")", ";">>

\* The value a field takes from a column value of its type.
FieldValue(f, v) ==
    IF f.type = FIELD_TYPE_STRING THEN Str(v[2]) ELSE v[2]

\* C22: row materialisation matches columns to fields by name.  Whatever
\* the order of the result set's columns, a field whose column is present
\* and not NULL holds that column's value, and a field whose name is absent
\* from the result set, or whose column is NULL, keeps its zero value; the
\* operation does not fail and tracks one block per string it copied.
C22_MatchByName ==
    last.op = "row_out" =>
        Bind(last.arg.model, LAMBDA m :
        Bind({ n \in { last.arg.cols[i] : i \in 1..Len(last.arg.cols) } :
                 last.arg.row.cols[n] # SqlNull }, LAMBDA present :
           /\ \A n \in ColumnSet(m) :
                 Deref(last.h, FieldNamed(m, n).type, last.inst[n])
                    = IF n \in present
                      THEN FieldValue(FieldNamed(m, n), last.arg.row.cols[n])
                      ELSE Deref(last.h, FieldNamed(m, n).type, 0)
           /\ \A n \in MemberNames(m) \ ColumnSet(m) : last.inst[n] = 0
           /\ ~last.h.bad
           /\ Len(last.res.allocations)
                 = Cardinality({ n \in present :
                       FieldNamed(m, n).type = FIELD_TYPE_STRING })))

\* A Post row whose columns come in the order tag, id, without user_id, and
\* whose tag is a text: tag and id are populated, user_id stays 0.
C22_Witness ==
    /\ last.op = "row_out"
    /\ last.arg.model = "Post"
    /\ last.arg.cols = <<"tag", "id">>
    /\ last.arg.row.cols["tag"] = SqlText("a")
    /\ last.arg.row.cols["id"] = SqlInt(MaxId)
    /\ last.arg.row.cols["user_id"] = SqlInt(MaxId)
    /\ last.inst["id"] = MaxId
    /\ last.inst["user_id"] = 0
    /\ last.inst["tag"] # 0

\* C23: corm_result_alloc is all-or-nothing.  When it returns a block, the
\* block is live and new, it is the last entry of the tracking list, the
\* earlier entries are kept in order and allocation_count is within
\* allocation_capacity; when it returns null, the container is as before
\* and no block is live that was not live before.  In both cases every
\* block that became live is the returned block or the container's
\* tracking array.
C23_AllocAllOrNothing ==
    last.op = "alloc_out" =>
        Bind(last.before, LAMBDA b :
        Bind(last.after, LAMBDA a :
           /\ ~a.h.bad
           /\ a.ptr # 0 =>
                 /\ a.ptr \in DOMAIN a.h.live
                 /\ a.ptr \notin DOMAIN b.h.live
                 /\ a.res.allocations = Append(b.res.allocations, a.ptr)
                 /\ Len(a.res.allocations) <= a.res.allocation_capacity
           /\ a.ptr = 0 =>
                 /\ a.res = b.res
                 /\ DOMAIN a.h.live = DOMAIN b.h.live
           /\ (DOMAIN a.h.live \ DOMAIN b.h.live)
                 \subseteq ({a.ptr} \cup {a.res.track})
           /\ a.res.track \in DOMAIN a.h.live))

\* The tracking array was full and could not be grown: null is returned.
C23_Witness ==
    /\ last.op = "alloc_out"
    /\ last.arg.tracked = InitialCapacity
    /\ last.arg.fails = {2}
    /\ last.after.ptr = 0
    /\ Len(last.before.res.allocations) = last.before.res.allocation_capacity

\* The entry of the operation table a call of the trace of corm_sync goes
\* through.
OperationOf(call) ==
    IF call[1] \in {"CREATE", "DROP"} THEN "execute" ELSE call[1]

\* C24: every backend operation corm_sync invokes is an entry the operation
\* table of each built-in backend sets, so that no sync calls through a
\* missing function pointer.
C24_NoMissingOperation ==
    last.op = "sync" =>
        \A b \in Backends : \A i \in 1..Len(last.calls) :
            OperationOf(last.calls[i]) \in BackendOps(b)

\* The Drop sync of the test suite: User, Post and Tag registered, every
\* statement accepted.
C24_Witness ==
    /\ last.op = "sync"
    /\ last.arg.mode = CORM_SYNC_DROP
    /\ { models[i] : i \in 1..Len(models) } = {"User", "Post", "Tag"}
    /\ last.calls[1] = <<"set_foreign_keys", "false">>
    /\ last.ret

\* C25: corm_sync in Drop mode never returns with foreign-key enforcement
\* still disabled: on every return path every set_foreign_keys(false) of
\* the call is followed by a set_foreign_keys(true).
C25_ForeignKeysReenabled ==
    (last.op = "sync" /\ last.arg.mode = CORM_SYNC_DROP) =>
        \A i \in 1..Len(last.calls) :
            last.calls[i] = <<"set_foreign_keys", "false">> =>
                \E j \in (i + 1)..Len(last.calls) :
                    last.calls[j] = <<"set_foreign_keys", "true">>

\* A Drop run whose second DROP the backend refused.
C25_Witness ==
    /\ last.op = "sync"
    /\ last.arg.mode = CORM_SYNC_DROP
    /\ ~last.ret
    /\ Len(last.calls) = 3
    /\ last.calls[1] = <<"set_foreign_keys", "false">>
    /\ last.calls[2][1] = "DROP"
    /\ last.calls[3][1] = "DROP"

\* C28: a corm_register_model call that returns false leaves the entity
\* descriptor (its resolved primary-key pointer) and the registry as they
\* were, and the primary-key pointer of an entity is non-null only if the
\* entity is in the registry.
C28_FailedRegisterChangesNothing ==
    [][/\ (last'.op = "register" /\ ~last'.ret) =>
             (pkf' = pkf /\ models' = models)
       /\ \A m \in ModelNames :
             pkf'[m] # 0 => \E i \in 1..Len(models') : models'[i] = m]_vars

\* An entity with one primary key was turned away by a full registry that
\* does not hold it.
C28_Witness ==
    /\ last.op = "register" /\ ~last.ret
    /\ pk_count(last.model) = 1
    /\ Len(models) = MaxModels
    /\ \A i \in 1..Len(models) : models[i] # last.model
    /\ last.model = "User"

\* C26: every statement a public operation prepared successfully is
\* finalized exactly once before the operation returns, on every path, and
\* nothing is finalized that was not prepared before.
FinalizedTimes(trace, stmt) ==
    Cardinality({ i \in DOMAIN trace :
                    trace[i].op = "finalize" /\ trace[i].stmt = stmt })

C26_FinalizedExactlyOnce ==
    last.op = "calls_out" =>
       /\ \A stmt \in DOMAIN last.c.stmts :
             FinalizedTimes(last.c.trace, stmt) = 1
       /\ \A i \in DOMAIN last.c.trace :
             last.c.trace[i].op = "finalize" =>
                \E j \in 1..(i - 1) :
                   /\ last.c.trace[j].op = "prepare"
                   /\ last.c.trace[j].stmt = last.c.trace[i].stmt

\* A save whose pre-check statement was prepared but could not be bound, and
\* whose second statement was prepared and finalized as well.
C26_Witness ==
    /\ last.op = "calls_out"
    /\ last.arg.call = "save"
    /\ 1 \in last.arg.fail.bind
    /\ Len(last.c.stmts) = 2
    /\ FinalizedTimes(last.c.trace, 1) = 1
    /\ FinalizedTimes(last.c.trace, 2) = 1

\* C27: when the existence pre-check of corm_save cannot be prepared, or its
\* key cannot be bound, corm_save returns false and executes neither an
\* INSERT nor an UPDATE.
PreCheckFailed ==
    1 \in last.arg.fail.prepare \/ 1 \in last.arg.fail.bind

C27_PreCheckErrorStopsSave ==
    (last.op = "calls_out" /\ last.arg.call = "save" /\ PreCheckFailed) =>
       /\ ~last.ret
       /\ \A i \in DOMAIN last.c.trace :
             last.c.trace[i].sql \notin {"INSERT", "UPDATE"}

\* The row exists, the pre-check could not be prepared, and corm_save
\* executed an INSERT and returned true.
C27_Witness ==
    /\ last.op = "calls_out"
    /\ last.arg.call = "save"
    /\ last.arg.rows > 0
    /\ 1 \in last.arg.fail.prepare
    /\ last.ret
    /\ \E i \in DOMAIN last.c.trace :
          last.c.trace[i] = Event("step", 1, "INSERT")

\* C30: without backend errors, corm_where_raw and the has-many loader
\* populate as many instances as they counted, and count every row the
\* query selects, on both backends.
C30_CountEqualsPopulated ==
    (/\ last.op = "calls_out"
     /\ last.arg.call \in {"where_raw", "has_many"}
     /\ last.arg.fail = NoFailure) =>
       /\ last.count = last.arg.rows
       /\ last.filled = last.count

\* On PostgreSQL the second pass yields nothing: rows were counted and no
\* instance was populated.
C30_Witness ==
    /\ last.op = "calls_out"
    /\ last.arg.call = "has_many"
    /\ last.arg.backend = "postgresql"
    /\ last.arg.fail = NoFailure
    /\ last.ret
    /\ last.count = MaxRows
    /\ last.filled = 0

\* C29: once the handle is closed, each of its blocks (the handle, the
\* arena, the registered-entity array) was released with the free function
\* of the allocator that allocated it, whatever corm_set_allocator calls
\* came between corm_init and corm_close.
FreeFunctionOf(allocated) ==
    CASE allocated = "malloc" -> "free"
      [] allocated = "custom_alloc" -> "custom_free"
      [] allocated = "other_alloc" -> "other_free"

ReleasedByOwner(block) == block.freed = FreeFunctionOf(block.allocated)

C29_ReleasedByAllocatingAllocator ==
    ~handle.open =>
       /\ ReleasedByOwner(handle.db)
       /\ ReleasedByOwner(handle.internal_arena)
       /\ ReleasedByOwner(handle.models)

\* The sequence of the test suite: a default handle, corm_set_allocator with
\* a custom pair, corm_close.  The array malloc allocated goes to
\* custom_free; the handle and the arena go to free.
C29_Witness ==
    /\ ~handle.open
    /\ handle.models.allocated = "malloc"
    /\ handle.models.freed = "custom_free"
    /\ ReleasedByOwner(handle.db)
    /\ ReleasedByOwner(handle.internal_arena)

====
